---- MODULE Spec2Model ----
(***************************************************************************)
(* FluxDB: a file-based document store.  The repository holds two engines *)
(* with the same public interface:                                        *)
(*   "database" - class FluxDB of fluxdb/database.py (second definition,  *)
(*                the one the package exports), which keeps buffer and    *)
(*                transaction state itself;                               *)
(*   "modular"  - class FluxDB of fluxdb/fluxdb.py, a facade over         *)
(*                DataManager, BufferManager, TransactionManager and      *)
(*                CollectionManager.                                      *)
(* Both share IndexManager and BinaryStorage.  The variable impl says     *)
(* which engine a behaviour runs; it never changes.                       *)
(*                                                                        *)
(* Python values: every value of the model is a string.  A Python int n   *)
(* is written "#n"; Str is Python's str() on these values.                *)
(***************************************************************************)
EXTENDS Integers, Sequences, FiniteSets, TLC

VARIABLES
    impl,                 \* which engine runs: "database" or "modular"
    paths,                \* collections whose <name>.fdb file exists
    fdb,                  \* fdb[c]: the frames of <c>.fdb, in file order
    idx,                  \* index files: DOMAIN idx = collections with an .idx file
    buffer,               \* the write buffer, a dict: collection -> list of frames
    index_cache,          \* IndexManager._index_cache, a dict: collection -> index data
    transaction_active,   \* the active flag
    transaction_buffer,   \* the pending closures, in call order
    uuid_count,           \* uuid4() calls made so far whose value was used
    last,                 \* the last public call: its name, collection, returned ids, exception
    snap,                 \* history: files, buffer and index when begin_transaction returned
    txn_phase,            \* history: what was called since begin_transaction (see Phase)
    applied               \* a function of the engine called on its own: name, input, result

vars == <<impl, paths, fdb, idx, buffer, index_cache, transaction_active,
          transaction_buffer, uuid_count, last, snap, txn_phase, applied>>

----------------------------------------------------------------------------
(* Bounds of the model. *)

\* frames in all logs and buffers plus closures in the pending list
MaxRecords == 2
\* uuid4() values that may be drawn
MaxUuid == 2
\* the engine's buffer_size parameter, scaled down
buffer_size == 2

Impls == {"database", "modular"}
Collections == {"c1", "c2"}

\* the indexed fields create_collection is called with, per collection
IndexedFields(c) == IF c = "c1" THEN {"f"} ELSE {}

\* Python None / "no value" in a string-typed slot
None == "None"

\* a dict with no key
EmptyDict == [k \in {} |-> None]

----------------------------------------------------------------------------
(* Values and records *)

\* the Python ints of the model
IsInt(v) == v \in {"#5", "#7"}

Str(v) == CASE v = "#5" -> "5"
            [] v = "#7" -> "7"
            [] OTHER -> v

\* the n-th value uuid4() returns: fresh, never equal to a caller's id
Uuid(n) == CASE n = 1 -> "u1"
             [] n = 2 -> "u2"
             [] n = 3 -> "u3"
             [] n = 4 -> "u4"
             [] n = 5 -> "u5"
             [] n = 6 -> "u6"
             [] n = 7 -> "u7"
             [] n = 8 -> "u8"
             [] OTHER -> "u9"

\* dict.get(key, default)
Get(d, k, default) == IF k \in DOMAIN d THEN d[k] ELSE default

\* d[k] = v on a dict
DictSet(d, k, v) == [x \in DOMAIN d \cup {k} |-> IF x = k THEN v ELSE d[x]]

\* del d[k]
DictDel(d, k) == [x \in DOMAIN d \ {k} |-> d[x]]

\* dict.update(other)
DictUpdate(d, other) ==
    [x \in DOMAIN d \cup DOMAIN other |-> IF x \in DOMAIN other THEN other[x] ELSE d[x]]

\* the elements of a sequence
Range(s) == {s[i] : i \in 1..Len(s)}

\* [x for x in s if Keep(x)]
RECURSIVE SelectSeqBy(_, _)
SelectSeqBy(s, keep) ==
    IF s = <<>> THEN <<>>
    ELSE IF Head(s) \in keep THEN <<Head(s)>> \o SelectSeqBy(Tail(s), keep)
         ELSE SelectSeqBy(Tail(s), keep)

----------------------------------------------------------------------------
(* BinaryStorage: the record codec.  A frame is the length-prefixed blob   *)
(* encode_record builds: the _id blob, then one (key, value) pair per      *)
(* field of the dict, keys and values passed through str().                *)

\* encode_record raises: record_id.encode fails when _id is not a string
EncodeRaises(data) == "_id" \in DOMAIN data /\ IsInt(data["_id"])

encode_record(data) ==
    [blob |-> data["_id"],
     kv   |-> [k \in DOMAIN data |-> Str(data[k])]]

decode_record(frame) ==
    [k \in {"_id"} \cup DOMAIN frame.kv |->
        IF k \in DOMAIN frame.kv THEN frame.kv[k] ELSE frame.blob]

\* [decode_record(b) for b in frames]
DecodeAll(frames) == [i \in 1..Len(frames) |-> decode_record(frames[i])]

\* the 36-character ids: what str(uuid4()) returns
IsUuid(v) == v \in {"u1", "u2", "u3", "u4", "u5", "u6", "u7", "u8", "u9"}

\* data[:36] of a whole frame, read as the id: the 4 bytes of the length prefix,
\* then the first 32 bytes of the id
Garbled(record_id) == "<len>" \o record_id

\* decode_record applied to a whole frame, length prefix included.  The field
\* count is read from bytes 36..39, the end of the id's padding: zero for an id
\* of at most 32 bytes, which gives a record with a garbled _id and no field;
\* the text of a longer id makes the count huge, a length check fails and the
\* result is None
decode_frame(frame) ==
    IF IsUuid(frame.blob) THEN None ELSE [_id |-> Garbled(frame.blob)]

\* [r for r in (decode_record(b) for b in frames) if r]: the frames of a write
\* buffer, decoded as they are
DecodeFrames(frames) ==
    LET kept == SelectSeqBy(frames, {b \in Range(frames) : ~IsUuid(b.blob)})
    IN  [i \in 1..Len(kept) |-> decode_frame(kept[i])]

EncodeAll(records) == [i \in 1..Len(records) |-> encode_record(records[i])]

----------------------------------------------------------------------------
(* The data state the managers work on, as one record D:                   *)
(*   paths, fdb, idx, buffer, cache (the index cache), uuid (uuid4 calls), *)
(*   exc (the exception that is propagating, or None).                     *)

Raise(D, e) == [D EXCEPT !.exc = e]

\* uuid.uuid4(): the next fresh value
NextUuid(D) == Uuid(D.uuid + 1)

DrawUuid(D) == [D EXCEPT !.uuid = @ + 1]

----------------------------------------------------------------------------
(* IndexManager *)

\* _load_index: the cached index, else the one in the .idx file, else None
\* (None and the empty dict are both "not index_data": the empty dict)
_load_index(D, c) ==
    IF c \in DOMAIN D.cache THEN D.cache[c]
    ELSE IF c \in DOMAIN D.idx THEN D.idx[c]
    ELSE EmptyDict

\* _load_index's side effect: an index read from its file enters the cache
LoadedCache(D, c) ==
    IF c \notin DOMAIN D.cache /\ c \in DOMAIN D.idx
    THEN [D EXCEPT !.cache = DictSet(@, c, D.idx[c])]
    ELSE D

\* _save_index
_save_index(D, c, index_data) == [D EXCEPT !.idx = DictSet(@, c, index_data)]

create_index(D, c, fields) ==
    LET index_data == [fld \in fields |-> EmptyDict]
    IN  _save_index([D EXCEPT !.cache = DictSet(@, c, index_data)], c, index_data)

drop_index(D, c) ==
    [D EXCEPT !.cache = DictDel(@, c), !.idx = DictDel(@, c)]

clear_index(D, c) ==
    IF c \in DOMAIN D.cache
    THEN LET cleared == [fld \in DOMAIN D.cache[c] |-> EmptyDict]
         IN  _save_index([D EXCEPT !.cache = DictSet(@, c, cleared)], c, cleared)
    ELSE IF c \in DOMAIN D.idx
    THEN _save_index(D, c, [fld \in DOMAIN D.idx[c] |-> EmptyDict])
    ELSE D

\* the posting lists of one field after update_index has seen record
UpdatedPostings(postings, value, record_id) ==
    LET old == Get(postings, value, <<>>)
    IN  DictSet(postings, value,
                IF record_id \in Range(old) THEN old ELSE Append(old, record_id))

update_index(D, c, record) ==
    LET index_data == _load_index(D, c)
        D1 == LoadedCache(D, c)
    IN  IF DOMAIN index_data = {} THEN D1
        ELSE LET new == [fld \in DOMAIN index_data |->
                           UpdatedPostings(index_data[fld],
                                           Str(Get(record, fld, "")),
                                           record["_id"])]
             IN  _save_index([D1 EXCEPT !.cache = DictSet(@, c, new)], c, new)

\* remove_from_index without "if not index_data[field][value]: del ..."
RemovedPostings_keep_empty(postings, record_id) ==
    [v \in DOMAIN postings |-> SelectSeqBy(postings[v], Range(postings[v]) \ {record_id})]

\* the posting lists of one field after remove_from_index
RemovedPostings(postings, record_id) ==
    LET kept == {v \in DOMAIN postings :
                    SelectSeqBy(postings[v], Range(postings[v]) \ {record_id}) # <<>>}
    IN  [v \in kept |-> SelectSeqBy(postings[v], Range(postings[v]) \ {record_id})]

remove_from_index(D, c, record_id) ==
    LET index_data == _load_index(D, c)
        D1 == LoadedCache(D, c)
    IN  IF DOMAIN index_data = {} THEN D1
        ELSE LET new == [fld \in DOMAIN index_data |->
                           RemovedPostings(index_data[fld], record_id)]
             IN  _save_index([D1 EXCEPT !.cache = DictSet(@, c, new)], c, new)

can_use_index(D, c, query) ==
    LET index_data == _load_index(D, c)
    IN  DOMAIN index_data # {} /\ \E key \in DOMAIN query : key \in DOMAIN index_data

\* query_index: the intersection of the posting lists of the query's indexed keys
query_index(D, c, query) ==
    LET index_data == _load_index(D, c)
        keys == DOMAIN query \cap DOMAIN index_data
        ids(key) == Range(Get(index_data[key], Str(query[key]), <<>>))
    IN  IF keys = {} THEN {}
        ELSE {i \in UNION {ids(key) : key \in keys} : \A key \in keys : i \in ids(key)}

----------------------------------------------------------------------------
(* BufferManager (modular) and FluxDB._flush_buffer (database) *)

append_to_buffer(D, c, record_bytes) ==
    [D EXCEPT !.buffer = DictSet(@, c, Append(Get(@, c, <<>>), record_bytes))]

is_buffer_full(D, c) ==
    c \in DOMAIN D.buffer /\ Len(D.buffer[c]) >= buffer_size

\* one round of _flush_buffer's loop: open(path, 'ab') creates a missing file
FlushCollection(D, col) ==
    IF col \in DOMAIN D.buffer /\ D.buffer[col] # <<>>
    THEN [D EXCEPT !.paths = @ \cup {col},
                   !.fdb[col] = @ \o D.buffer[col],
                   !.buffer[col] = <<>>]
    ELSE D

\* flush_buffer as it would be with os imported
flush_buffer_os_imported(D, c) == FlushCollection(D, c)

\* BufferManager.flush_buffer(collection): buffer_manager.py uses os.path.join
\* and never imports os, so the round of a collection that has buffered frames
\* ends with NameError before its file is opened; nothing is written
flush_buffer(D, c) ==
    IF c \in DOMAIN D.buffer /\ D.buffer[c] # <<>> THEN Raise(D, "NameError") ELSE D

\* BufferManager.flush_buffer(): the first key with buffered frames raises
flush_buffer_all(D) ==
    IF \E col \in DOMAIN D.buffer : D.buffer[col] # <<>> THEN Raise(D, "NameError") ELSE D

\* FluxDB._flush_buffer(collection) of database.py
_flush_buffer(D, c) == FlushCollection(D, c)

\* FluxDB._flush_buffer(): every key of the buffer; the rounds touch disjoint state
_flush_buffer_all(D) ==
    LET full == {col \in DOMAIN D.buffer : D.buffer[col] # <<>>}
    IN  [D EXCEPT !.paths = @ \cup full,
                  !.fdb = [col \in Collections |->
                             IF col \in full THEN D.fdb[col] \o D.buffer[col]
                             ELSE D.fdb[col]],
                  !.buffer = [col \in DOMAIN D.buffer |-> <<>>]]

----------------------------------------------------------------------------
(* RecordLoader (modular) and FluxDB._load_* (database) *)

\* open(collection_path, 'rb') fails on a missing file: FluxDBError
load_all_records(D, c) == DecodeAll(D.fdb[c])

load_records_by_ids(D, c, record_ids) ==
    LET records == DecodeAll(D.fdb[c])
    IN  SelectSeqBy(records, {r \in Range(records) : r["_id"] \in record_ids})

----------------------------------------------------------------------------
(* The closures insert, update and delete hand to the transaction.  A     *)
(* closure is a record: kind, col (the collection), data (the record or   *)
(* the patch), rid (the record id it captured; None when it captured      *)
(* none) and ret (history: the id the call returned to its caller).       *)

\* the body both engines' _insert share once the record id is known; a full
\* buffer is flushed by the engine's own flush
InsertRecord(D, c, data, record_id, engine) ==
    LET data_with_id == DictSet(data, "_id", record_id)
    IN  IF EncodeRaises(data_with_id) THEN Raise(D, "AttributeError")
        ELSE LET D1 == append_to_buffer(D, c, encode_record(data_with_id))
                 D2 == update_index(D1, c, data_with_id)
             IN  IF ~is_buffer_full(D2, c) THEN D2
                 ELSE IF engine = "modular" THEN flush_buffer(D2, c)
                 ELSE _flush_buffer(D2, c)

\* DataManager.insert._insert: record_id was fixed by the call
DM_insert_closure(D, c, data, record_id) == InsertRecord(D, c, data, record_id, "modular")

\* FluxDB.insert._insert of database.py: record_id is read, or drawn, when it runs
DB_insert_closure(D, c, data) ==
    IF "_id" \in DOMAIN data
    THEN InsertRecord(D, c, data, data["_id"], "database")
    ELSE InsertRecord(DrawUuid(D), c, data, NextUuid(D), "database")

\* position of the first record with this _id, 0 when there is none
RECURSIVE FirstWithId(_, _, _)
FirstWithId(records, record_id, i) ==
    IF i > Len(records) THEN 0
    ELSE IF records[i]["_id"] = record_id THEN i
    ELSE FirstWithId(records, record_id, i + 1)

\* _update without "record['_id'] = record_id" after record.update(update_data)
update_closure_id_overwritten(D, c, record_id, update_data) ==
    IF c \notin D.paths THEN Raise(D, "FluxDBError")
    ELSE LET records == load_all_records(D, c)
             i == FirstWithId(records, record_id, 1)
         IN  IF i = 0 THEN D
             ELSE LET updated_record == DictUpdate(records[i], update_data)
                      rewritten == [records EXCEPT ![i] = updated_record]
                  IN  update_index([D EXCEPT !.fdb[c] = EncodeAll(rewritten)],
                                   c, updated_record)

\* _update of both engines (data_manager.py 188-207, database.py 792-808)
update_closure(D, c, record_id, update_data) ==
    IF c \notin D.paths THEN Raise(D, "FluxDBError")
    ELSE LET records == load_all_records(D, c)
             i == FirstWithId(records, record_id, 1)
         IN  IF i = 0 THEN D
             ELSE LET updated_record ==
                          DictSet(DictUpdate(records[i], update_data), "_id", record_id)
                      rewritten == [records EXCEPT ![i] = updated_record]
                  IN  update_index([D EXCEPT !.fdb[c] = EncodeAll(rewritten)],
                                   c, updated_record)

\* _delete that keeps the records before the first one with the id and drops
\* the rest of the log
delete_closure_dropping_rest(D, c, record_id) ==
    IF c \notin D.paths THEN Raise(D, "FluxDBError")
    ELSE LET records == load_all_records(D, c)
             i == FirstWithId(records, record_id, 1)
         IN  IF i # 0
             THEN remove_from_index([D EXCEPT !.fdb[c] = EncodeAll(SubSeq(records, 1, i - 1))],
                                    c, record_id)
             ELSE D

\* _delete of both engines (data_manager.py 230-243, database.py 829-839)
delete_closure(D, c, record_id) ==
    IF c \notin D.paths THEN Raise(D, "FluxDBError")
    ELSE LET records == load_all_records(D, c)
             kept == SelectSeqBy(records, {r \in Range(records) : r["_id"] # record_id})
         IN  IF Len(kept) < Len(records)
             THEN remove_from_index([D EXCEPT !.fdb[c] = EncodeAll(kept)], c, record_id)
             ELSE D

\* op['func'](*op['args'], **op['kwargs'])
RunClosure(D, op, engine) ==
    CASE op.kind = "insert" ->
            IF engine = "modular" THEN DM_insert_closure(D, op.col, op.data, op.rid)
            ELSE DB_insert_closure(D, op.col, op.data)
      [] op.kind = "update" -> update_closure(D, op.col, op.rid, op.data)
      [] OTHER -> delete_closure(D, op.col, op.rid)

\* a commit loop that runs the first pending closure only
RunClosuresFirstOnly(D, ops, engine) ==
    IF ops = <<>> THEN D ELSE RunClosure(D, Head(ops), engine)

\* for op in self.transaction_buffer: op['func'](...), stopping at the first exception
RECURSIVE RunClosures(_, _, _)
RunClosures(D, ops, engine) ==
    IF ops = <<>> \/ D.exc # None THEN D
    ELSE RunClosures(RunClosure(D, Head(ops), engine), Tail(ops), engine)

----------------------------------------------------------------------------
(* Reads.  A query is a dict field -> scalar condition; the empty dict    *)
(* stands for "no query" (None and {} are both falsy).  NoLimit is        *)
(* limit=None.  A read returns [D, recs, n, ok, exc].                     *)

NoLimit == -1

Min(a, b) == IF a < b THEN a ELSE b

\* records[skip:]
SliceFrom(records, skip) == SubSeq(records, skip + 1, Len(records))

\* records[:limit]
SliceTo(records, limit) == SubSeq(records, 1, Min(limit, Len(records)))

\* DataManager._filter_records, scalar conditions: compared with str(condition)
DM_filter_records(records, query) ==
    SelectSeqBy(records,
        {r \in Range(records) : \A key \in DOMAIN query : Get(r, key, "") = Str(query[key])})

\* FluxDB._filter_records of database.py, scalar conditions: compared with condition itself
DB_filter_records(records, query) ==
    SelectSeqBy(records,
        {r \in Range(records) : \A key \in DOMAIN query : Get(r, key, "") = query[key]})

Result(D, recs, n, ok, exc) == [D |-> D, recs |-> recs, n |-> n, ok |-> ok, exc |-> exc]

\* DataManager.find with sort=None: flush, load (by index or all), filter, slice
DM_find(D, c, query, limit, skip) ==
    IF c \notin D.paths THEN Result(D, <<>>, 0, FALSE, "CollectionNotFoundError")
    ELSE IF flush_buffer(D, c).exc # None THEN Result(D, <<>>, 0, FALSE, "NameError")
    ELSE LET D1 == flush_buffer(D, c)
             byIndex == DOMAIN query # {} /\ can_use_index(D1, c, query)
             D2 == IF DOMAIN query # {} THEN LoadedCache(D1, c) ELSE D1
             loaded == IF byIndex
                       THEN load_records_by_ids(D2, c, query_index(D2, c, query))
                       ELSE load_all_records(D2, c)
             filtered == IF DOMAIN query # {} THEN DM_filter_records(loaded, query)
                         ELSE loaded
             skipped == SliceFrom(filtered, skip)
             records == IF limit # NoLimit THEN SliceTo(skipped, limit) ELSE skipped
         IN  Result(D2, records, Len(records), TRUE, None)

\* FluxDB.find of database.py with sort=None: no flush; the buffered frames are
\* decoded with their length prefix, appended after the slice, and the result
\* is sliced again
DB_find(D, c, query, limit, skip) ==
    IF c \notin D.paths THEN Result(D, <<>>, 0, FALSE, "CollectionNotFoundError")
    ELSE LET byIndex == DOMAIN query # {} /\ can_use_index(D, c, query)
             D2 == IF DOMAIN query # {} THEN LoadedCache(D, c) ELSE D
             loaded == IF byIndex
                       THEN load_records_by_ids(D2, c, query_index(D2, c, query))
                       ELSE load_all_records(D2, c)
             filtered == IF DOMAIN query # {} THEN DB_filter_records(loaded, query)
                         ELSE loaded
             skipped == SliceFrom(filtered, skip)
             sliced == IF limit # NoLimit THEN SliceTo(skipped, limit) ELSE skipped
             buffered_records == DecodeFrames(Get(D2.buffer, c, <<>>))
             filtered_buffered == IF DOMAIN query # {}
                                  THEN DB_filter_records(buffered_records, query)
                                  ELSE buffered_records
             extended == sliced \o filtered_buffered
             records == IF c \notin DOMAIN D2.buffer THEN sliced
                        ELSE IF limit # NoLimit /\ limit # 0
                        THEN SliceTo(SliceFrom(extended, skip), limit)
                        ELSE SliceFrom(extended, skip)
         IN  Result(D2, records, Len(records), TRUE, None)

\* DataManager.exists: flush, load all; FluxDBError (a missing file) gives False,
\* any other exception leaves the call
DM_exists(D, c, record_id) ==
    LET D1 == flush_buffer(D, c)
    IN  IF D1.exc # None THEN Result(D, <<>>, 0, FALSE, "NameError")
        ELSE IF c \notin D1.paths THEN Result(D1, <<>>, 0, FALSE, None)
        ELSE Result(D1, <<>>, 0,
                    \E r \in Range(load_all_records(D1, c)) : r["_id"] = record_id, None)

\* FluxDB.exists of database.py: load all from the file, no flush
DB_exists(D, c, record_id) ==
    IF c \notin D.paths THEN Result(D, <<>>, 0, FALSE, "FluxDBError")
    ELSE Result(D, <<>>, 0,
                \E r \in Range(load_all_records(D, c)) : r["_id"] = record_id, None)

\* DataManager.count: len(find(...)), 0 on CollectionNotFoundError
DM_count(D, c, query) ==
    LET found == DM_find(D, c, query, NoLimit, 0)
    IN  IF found.exc = "CollectionNotFoundError" THEN Result(found.D, <<>>, 0, FALSE, None)
        ELSE IF found.exc # None THEN found
        ELSE Result(found.D, <<>>, found.n, TRUE, None)

\* FluxDB.count of database.py: len(find(...))
DB_count(D, c, query) ==
    LET found == DB_find(D, c, query, NoLimit, 0)
    IN  Result(found.D, <<>>, found.n, found.ok, found.exc)

\* the $group stage {_id: group_by, n: {$count: True}}: one output per key in
\* first-occurrence order; a record without the field has key None
RECURSIVE GroupCount(_, _, _)
GroupCount(records, group_by, grouped) ==
    IF records = <<>> THEN grouped
    ELSE LET key == Get(Head(records), group_by, None)
             at == {i \in 1..Len(grouped) : grouped[i]["_id"] = key}
         IN  IF at = {}
             THEN GroupCount(Tail(records), group_by,
                             Append(grouped, [_id |-> key, n |-> 1]))
             ELSE GroupCount(Tail(records), group_by,
                             [i \in 1..Len(grouped) |->
                                 IF i \in at THEN [grouped[i] EXCEPT !.n = @ + 1]
                                 ELSE grouped[i]])

\* DataManager.aggregate with that pipeline: find(collection), [] on CollectionNotFoundError
DM_aggregate(D, c, group_by) ==
    LET found == DM_find(D, c, EmptyDict, NoLimit, 0)
    IN  IF found.exc = "CollectionNotFoundError" THEN Result(found.D, <<>>, 0, FALSE, None)
        ELSE IF found.exc # None THEN found
        ELSE LET out == GroupCount(found.recs, group_by, <<>>)
             IN  Result(found.D, out, Len(out), TRUE, None)

\* FluxDB.aggregate of database.py with that pipeline
DB_aggregate(D, c, group_by) ==
    LET found == DB_find(D, c, EmptyDict, NoLimit, 0)
    IN  IF found.exc # None THEN found
        ELSE LET out == GroupCount(found.recs, group_by, <<>>)
             IN  Result(found.D, out, Len(out), TRUE, None)

----------------------------------------------------------------------------
(* The inputs of the public calls.  Collection c1 is created with an index *)
(* on f and receives every call; c2 has no index and receives inserts of   *)
(* one record and find.                                                    *)

InsertData(c) ==
    IF c = "c1"
    THEN { [f |-> "x"],
           [_id |-> "a", f |-> "#5"],
           [_id |-> "#7", f |-> "x"] }
    ELSE { [_id |-> "a", f |-> "x"] }

\* the lists insert_many is called with
InsertLists == { << [_id |-> "a", f |-> "#5"], [f |-> "x"] >> }

RecordIds == {"a"}

Patches == { [f |-> "y"] }

Queries(c) == IF c = "c1" THEN { [f |-> "x"] } ELSE { EmptyDict }

\* update_data with an _id key of its own
IdPatch == [_id |-> "b", f |-> "z"]

\* update_data {'$inc': {'f': 3}}: the value is a dict, named by what str() makes of it
IncPatch == "$inc" :> "{'f': 3}"

\* the patches update is called with when no transaction is used
DirectPatches == Patches \cup {IdPatch, IncPatch}

\* the files import_collection is called with: one that does not exist, and
\* exports of a collection that held records a and b
ImportFiles ==
    { [exists |-> FALSE, frames |-> <<>>],
      [exists |-> TRUE, frames |-> << encode_record([_id |-> "a", f |-> "x"]) >>],
      [exists |-> TRUE, frames |-> << encode_record([_id |-> "a", f |-> "x"]),
                                      encode_record([_id |-> "b", f |-> "y"]) >>] }

----------------------------------------------------------------------------
(* The engine state as a record D, and back *)

DB == [paths |-> paths, fdb |-> fdb, idx |-> idx, buffer |-> buffer,
       cache |-> index_cache, uuid |-> uuid_count, exc |-> None]

Store(D) ==
    /\ paths' = D.paths
    /\ fdb' = D.fdb
    /\ idx' = D.idx
    /\ buffer' = D.buffer
    /\ index_cache' = D.cache
    /\ uuid_count' = D.uuid

\* the record of a public call: ids are the ids an insert returned, exc the
\* exception it ended with, ret what update, delete or a collection call
\* returned, found what the closure of update or delete returned when it ran in
\* the call (whether it met the id in the log), out the frames of the file an
\* export wrote; phase and pending are history, the transaction phase and the
\* length of the pending list when the call was made
Call(op, c, ids, exc) ==
    [op |-> op, col |-> c, ids |-> ids, exc |-> exc, ret |-> None, found |-> FALSE,
     out |-> <<>>, phase |-> txn_phase, pending |-> Len(transaction_buffer)]

NoSnap == [paths |-> {}, fdb |-> [c \in Collections |-> <<>>], idx |-> EmptyDict,
           buffer |-> EmptyDict, cache |-> EmptyDict]

Closure(kind, c, data, rid, ret) ==
    [kind |-> kind, col |-> c, data |-> data, rid |-> rid, ret |-> ret]

\* history of the open transaction: "idle" (none open), "inserts" (open, and only
\* insert and insert_many were called), "mixed" (other calls too, no commit),
\* "failed" (commit was called and the transaction is still open)
Phase(op) ==
    IF ~transaction_active THEN "idle"
    ELSE IF txn_phase = "failed" \/ op = "commit" THEN "failed"
    ELSE IF txn_phase = "inserts" /\ op \in {"insert", "insert_many"} THEN "inserts"
    ELSE "mixed"

Noted(op) == txn_phase' = Phase(op)

RECURSIVE SumLen(_, _)
SumLen(f, S) ==
    IF S = {} THEN 0
    ELSE LET x == CHOOSE y \in S : TRUE IN Len(f[x]) + SumLen(f, S \ {x})

\* frames in all logs and buffers
StoredCount == SumLen(fdb, Collections) + SumLen(buffer, DOMAIN buffer)

PendingInserts ==
    Cardinality({i \in 1..Len(transaction_buffer) : transaction_buffer[i].kind = "insert"})

\* pending inserts that will draw a uuid when they run
PendingDraws ==
    Cardinality({i \in 1..Len(transaction_buffer) :
                    /\ transaction_buffer[i].kind = "insert"
                    /\ transaction_buffer[i].rid = None
                    /\ "_id" \notin DOMAIN transaction_buffer[i].data})

\* the bounds leave room for k more frames or closures
Room(k) == StoredCount + Len(transaction_buffer) + k <= MaxRecords

RoomUuid(k) == uuid_count + PendingDraws + k <= MaxUuid

\* no function was called on its own
NotApplied == [fn |-> "none"]

----------------------------------------------------------------------------
(* Initial state: a fresh engine on an empty directory *)

Init ==
    /\ impl \in Impls
    /\ paths = {}
    /\ fdb = [c \in Collections |-> <<>>]
    /\ idx = EmptyDict
    /\ buffer = EmptyDict
    /\ index_cache = EmptyDict
    /\ transaction_active = FALSE
    /\ transaction_buffer = <<>>
    /\ uuid_count = 0
    /\ last = [op |-> "open", col |-> None, ids |-> <<>>, exc |-> None,
               ret |-> None, found |-> FALSE, out |-> <<>>, phase |-> "idle",
               pending |-> 0]
    /\ snap = NoSnap
    /\ txn_phase = "idle"
    /\ applied = NotApplied

----------------------------------------------------------------------------
(* Collections *)

\* create_collection of both engines (collection_manager.py 17-44, database.py 438-455)
create_collection(D, c, indexed_fields) ==
    LET D1 == [D EXCEPT !.paths = @ \cup {c}, !.fdb[c] = <<>>]
    IN  IF indexed_fields # {} THEN create_index(D1, c, indexed_fields) ELSE D1

CreateCollection(c) ==
    /\ c \notin paths
    /\ Store(create_collection(DB, c, IndexedFields(c)))
    /\ last' = Call("create_collection", c, <<>>, None)
    /\ Noted("create_collection")
    /\ UNCHANGED <<impl, applied, transaction_active, transaction_buffer, snap>>

\* CollectionManager.clear_collection: the log is truncated and the index cleared;
\* the write buffer is out of its reach
CM_clear_collection(D, c) ==
    IF c \notin D.paths THEN D
    ELSE clear_index([D EXCEPT !.fdb[c] = <<>>], c)

\* FluxDB.clear_collection of database.py: the same, and the collection's buffer is emptied
DB_clear_collection(D, c) ==
    IF c \notin D.paths THEN D
    ELSE LET D1 == clear_index([D EXCEPT !.fdb[c] = <<>>], c)
         IN  IF c \in DOMAIN D1.buffer THEN [D1 EXCEPT !.buffer[c] = <<>>] ELSE D1

clear_collection(D, c, engine) ==
    IF engine = "modular" THEN CM_clear_collection(D, c) ELSE DB_clear_collection(D, c)

\* clear_collection is not handed to the transaction: it acts at once
ClearCollection(c) ==
    /\ Store(clear_collection(DB, c, impl))
    /\ last' = [Call("clear_collection", c, <<>>, None) EXCEPT
                   !.ret = IF c \in paths THEN "True" ELSE "False"]
    /\ Noted("clear_collection")
    /\ UNCHANGED <<impl, applied, transaction_active, transaction_buffer, snap>>

\* CollectionManager.drop_collection: the log file and the index are removed;
\* the write buffer is out of its reach
CM_drop_collection(D, c) ==
    IF c \notin D.paths THEN D
    ELSE drop_index([D EXCEPT !.paths = @ \ {c}, !.fdb[c] = <<>>], c)

\* FluxDB.drop_collection of database.py: the same, and the collection's key
\* leaves the buffer
DB_drop_collection(D, c) ==
    IF c \notin D.paths THEN D
    ELSE LET D1 == drop_index([D EXCEPT !.paths = @ \ {c}, !.fdb[c] = <<>>], c)
         IN  [D1 EXCEPT !.buffer = DictDel(@, c)]

drop_collection(D, c, engine) ==
    IF engine = "modular" THEN CM_drop_collection(D, c) ELSE DB_drop_collection(D, c)

\* drop_collection is not handed to the transaction: it acts at once
DropCollection(c) ==
    /\ Store(drop_collection(DB, c, impl))
    /\ last' = [Call("drop_collection", c, <<>>, None) EXCEPT
                   !.ret = IF c \in paths THEN "True" ELSE "False"]
    /\ Noted("drop_collection")
    /\ UNCHANGED <<impl, applied, transaction_active, transaction_buffer, snap>>

\* what export_collection returns and writes: [D, ret, out]
Exported(D, ret, out) == [D |-> D, ret |-> ret, out |-> out]

\* CollectionManager.export_collection: the bytes of the log file are copied
CM_export_collection(D, c) ==
    IF c \notin D.paths THEN Exported(D, "False", <<>>)
    ELSE Exported(D, "True", D.fdb[c])

\* FluxDB.export_collection of database.py: _flush_buffer(collection), then the copy
DB_export_collection(D, c) ==
    IF c \notin D.paths THEN Exported(D, "False", <<>>)
    ELSE LET D1 == _flush_buffer(D, c)
         IN  Exported(D1, "True", D1.fdb[c])

export_collection(D, c, engine) ==
    IF engine = "modular" THEN CM_export_collection(D, c) ELSE DB_export_collection(D, c)

ExportCollection(c) ==
    /\ LET E == export_collection(DB, c, impl)
       IN  /\ Store(E.D)
           /\ last' = [Call("export_collection", c, <<>>, None) EXCEPT
                          !.ret = E.ret, !.out = E.out]
    /\ Noted("export_collection")
    /\ UNCHANGED <<impl, applied, transaction_active, transaction_buffer, snap>>

\* for record in records: self.index_manager.update_index(collection, record)
RECURSIVE IndexAll(_, _, _)
IndexAll(D, c, records) ==
    IF records = <<>> THEN D
    ELSE IndexAll(update_index(D, c, Head(records)), c, Tail(records))

\* CollectionManager.import_collection: the bytes of the input file become the log
CM_import_collection(D, c, input_file) ==
    IF ~input_file.exists THEN D
    ELSE [D EXCEPT !.paths = @ \cup {c}, !.fdb[c] = input_file.frames]

\* FluxDB.import_collection of database.py: the same, then update_index for
\* every record of the new log
DB_import_collection(D, c, input_file) ==
    IF ~input_file.exists THEN D
    ELSE LET D1 == [D EXCEPT !.paths = @ \cup {c}, !.fdb[c] = input_file.frames]
         IN  IndexAll(D1, c, load_all_records(D1, c))

import_collection(D, c, input_file, engine) ==
    IF engine = "modular" THEN CM_import_collection(D, c, input_file)
    ELSE DB_import_collection(D, c, input_file)

\* import_collection is not handed to the transaction either
ImportCollection(c, input_file) ==
    /\ StoredCount - Len(fdb[c]) + Len(input_file.frames) <= MaxRecords
    /\ Store(import_collection(DB, c, input_file, impl))
    /\ last' = [Call("import_collection", c, <<>>, None) EXCEPT
                   !.ret = IF input_file.exists THEN "True" ELSE "False"]
    /\ Noted("import_collection")
    /\ UNCHANGED <<impl, applied, transaction_active, transaction_buffer, snap>>

\* CollectionManager.list_collections: the sorted names of the .fdb files
\* (the FluxDB of database.py has no such method)
list_collections(D) == D.paths

----------------------------------------------------------------------------
(* Mutations.  A mutating call works on S = [D, tb, active, ids, ret]: the *)
(* data state, the pending list, the active flag, the ids returned so far  *)
(* and the value update or delete returns.                                 *)

Session == [D |-> DB, tb |-> transaction_buffer, active |-> transaction_active, ids |-> <<>>,
            ret |-> None]

\* add_to_transaction without the deferral: the closure runs at once
add_to_transaction_eager(S, closure) ==
    [S EXCEPT !.D = RunClosure(S.D, closure, "modular")]

\* TransactionManager.add_to_transaction
add_to_transaction(S, closure) ==
    IF S.active THEN [S EXCEPT !.tb = Append(@, closure)]
    ELSE [S EXCEPT !.D = RunClosure(S.D, closure, "modular")]

\* _add_to_transaction without the deferral
_add_to_transaction_eager(S, closure) ==
    [S EXCEPT !.D = RunClosure(S.D, closure, "database")]

\* FluxDB._add_to_transaction of database.py
_add_to_transaction(S, closure) ==
    IF S.active THEN [S EXCEPT !.tb = Append(@, closure)]
    ELSE [S EXCEPT !.D = RunClosure(S.D, closure, "database")]

\* DataManager.insert: the id is fixed first, a missing collection raises
DM_insert(S, c, data) ==
    LET record_id == Get(data, "_id", NextUuid(S.D))
        D1 == IF "_id" \in DOMAIN data THEN S.D ELSE DrawUuid(S.D)
    IN  IF c \notin S.D.paths THEN [S EXCEPT !.D = Raise(@, "CollectionNotFoundError")]
        ELSE LET S1 == add_to_transaction([S EXCEPT !.D = D1],
                                          Closure("insert", c, data, record_id, record_id))
             IN  IF S1.D.exc # None THEN S1
                 ELSE [S1 EXCEPT !.ids = Append(@, record_id)]

\* FluxDB.insert of database.py: a missing collection is created; the id returned
\* is read, or drawn, after the closure was queued or run
DB_insert(S, c, data) ==
    LET D0 == IF c \notin S.D.paths THEN create_collection(S.D, c, {}) ELSE S.D
        S1 == _add_to_transaction([S EXCEPT !.D = D0],
                  Closure("insert", c, data, None, Get(data, "_id", NextUuid(D0))))
    IN  IF S1.D.exc # None THEN S1
        ELSE [S1 EXCEPT !.D = IF "_id" \in DOMAIN data THEN @ ELSE DrawUuid(@),
                        !.ids = Append(@, Get(data, "_id", NextUuid(S1.D)))]

InsertOn(S, c, data, engine) ==
    IF engine = "modular" THEN DM_insert(S, c, data) ELSE DB_insert(S, c, data)

\* insert_many of both engines: [self.insert(collection, data) for data in data_list]
RECURSIVE insert_many(_, _, _, _)
insert_many(S, c, data_list, engine) ==
    IF data_list = <<>> \/ S.D.exc # None THEN S
    ELSE insert_many(InsertOn(S, c, Head(data_list), engine), c, Tail(data_list), engine)

\* update of both engines (data_manager.py 209-213, database.py 810-814)
update(S, c, record_id, update_data, engine) ==
    IF c \notin S.D.paths THEN [S EXCEPT !.D = Raise(@, "CollectionNotFoundError")]
    ELSE LET S1 == IF engine = "modular"
                   THEN add_to_transaction(S, Closure("update", c, update_data, record_id, None))
                   ELSE _add_to_transaction(S, Closure("update", c, update_data, record_id, None))
         IN  IF S1.D.exc # None THEN S1 ELSE [S1 EXCEPT !.ret = "True"]

\* delete of both engines (data_manager.py 245-249, database.py 841-845)
delete(S, c, record_id, engine) ==
    IF c \notin S.D.paths THEN [S EXCEPT !.D = Raise(@, "CollectionNotFoundError")]
    ELSE LET S1 == IF engine = "modular"
                   THEN add_to_transaction(S, Closure("delete", c, EmptyDict, record_id, None))
                   ELSE _add_to_transaction(S, Closure("delete", c, EmptyDict, record_id, None))
         IN  IF S1.D.exc # None THEN S1 ELSE [S1 EXCEPT !.ret = "True"]

\* the uuid4() values an insert of data may use under this engine
UuidCost(data) ==
    IF "_id" \in DOMAIN data THEN 0 ELSE IF impl = "modular" THEN 1 ELSE 2

\* what the closure of update or delete returns when the call runs it: whether
\* it met record_id in the log
ClosureFound(c, record_id) ==
    /\ ~transaction_active
    /\ c \in paths
    /\ FirstWithId(load_all_records(DB, c), record_id, 1) # 0

\* the state a mutating call leaves
StoreSession(S) ==
    /\ Store(S.D)
    /\ transaction_buffer' = S.tb
    /\ transaction_active' = S.active

\* insert(c, data), whatever the bounds
InsertCall(c, data) ==
    /\ LET S == InsertOn(Session, c, data, impl)
       IN  /\ StoreSession(S)
           /\ last' = Call("insert", c, S.ids, S.D.exc)
    /\ Noted("insert")
    /\ UNCHANGED <<impl, applied, snap>>

Insert(c, data) ==
    /\ Room(1) /\ RoomUuid(UuidCost(data))
    /\ InsertCall(c, data)

InsertMany(c, data_list) ==
    /\ Room(Len(data_list))
    /\ RoomUuid(UuidCost(data_list[1]) + UuidCost(data_list[2]))
    /\ LET S == insert_many(Session, c, data_list, impl)
       IN  /\ StoreSession(S)
           /\ last' = Call("insert_many", c, S.ids, S.D.exc)
    /\ Noted("insert_many")
    /\ UNCHANGED <<impl, applied, snap>>

Update(c, record_id, update_data) ==
    /\ transaction_active => Room(1)
    /\ LET S == update(Session, c, record_id, update_data, impl)
       IN  /\ StoreSession(S)
           /\ last' = [Call("update", c, <<>>, S.D.exc) EXCEPT
                          !.ret = S.ret, !.found = ClosureFound(c, record_id)]
    /\ Noted("update")
    /\ UNCHANGED <<impl, applied, snap>>

Delete(c, record_id) ==
    /\ transaction_active => Room(1)
    /\ LET S == delete(Session, c, record_id, impl)
       IN  /\ StoreSession(S)
           /\ last' = [Call("delete", c, <<>>, S.D.exc) EXCEPT
                          !.ret = S.ret, !.found = ClosureFound(c, record_id)]
    /\ Noted("delete")
    /\ UNCHANGED <<impl, applied, snap>>

----------------------------------------------------------------------------
(* Transactions.  begin_transaction and rollback are the same code in both *)
(* engines (transaction_manager.py, database.py 494-519); commit differs.  *)

Snapshot == [paths |-> paths, fdb |-> fdb, idx |-> idx, buffer |-> buffer,
             cache |-> index_cache]

\* begin_transaction that resets the pending list before it looks at the flag
begin_transaction_clearing(S) ==
    IF S.active THEN [S EXCEPT !.tb = <<>>, !.D = Raise(@, "TransactionError")]
    ELSE [S EXCEPT !.active = TRUE, !.tb = <<>>]

\* begin_transaction on S
begin_transaction(S) ==
    IF S.active THEN [S EXCEPT !.D = Raise(@, "TransactionError")]
    ELSE [S EXCEPT !.active = TRUE, !.tb = <<>>]

\* TransactionManager.rollback / FluxDB.rollback on S
rollback(S) ==
    IF ~S.active THEN [S EXCEPT !.D = Raise(@, "TransactionError")]
    ELSE [S EXCEPT !.tb = <<>>, !.active = FALSE]

\* commit without the final flush_buffer()
TM_commit_noflush(S) ==
    IF ~S.active THEN [S EXCEPT !.D = Raise(@, "TransactionError")]
    ELSE LET ran == RunClosures(S.D, S.tb, "modular")
         IN  IF ran.exc = None
             THEN [S EXCEPT !.D = ran, !.tb = <<>>, !.active = FALSE]
             ELSE [S EXCEPT !.D = Raise(ran, "TransactionError"), !.tb = <<>>,
                            !.active = FALSE]

\* TransactionManager.commit: run the closures, clear, flush all; on an exception
\* call rollback() and raise TransactionError.  When it is the flush that raises,
\* the flag is already down and the handler's rollback() raises TransactionError itself
TM_commit(S) ==
    IF ~S.active THEN [S EXCEPT !.D = Raise(@, "TransactionError")]
    ELSE LET ran == RunClosures(S.D, S.tb, "modular")
             flushed == flush_buffer_all(ran)
         IN  IF ran.exc # None
             THEN [rollback([S EXCEPT !.D = ran]) EXCEPT !.D = Raise(@, "TransactionError")]
             ELSE IF flushed.exc # None
             THEN [S EXCEPT !.D = Raise(ran, "TransactionError"), !.tb = <<>>, !.active = FALSE]
             ELSE [S EXCEPT !.D = flushed, !.tb = <<>>, !.active = FALSE]

\* FluxDB.commit of database.py: the same, but the handler only raises TransactionError
DB_commit(S) ==
    IF ~S.active THEN [S EXCEPT !.D = Raise(@, "TransactionError")]
    ELSE LET ran == RunClosures(S.D, S.tb, "database")
         IN  IF ran.exc = None
             THEN [S EXCEPT !.D = _flush_buffer_all(ran), !.tb = <<>>, !.active = FALSE]
             ELSE [S EXCEPT !.D = Raise(ran, "TransactionError")]

\* history is kept while the transaction is open
TxnHistory(S, op) ==
    /\ snap' = IF S.active THEN snap ELSE NoSnap
    /\ txn_phase' = IF ~S.active THEN "idle"
                    ELSE IF op = "commit" THEN "failed" ELSE txn_phase

BeginTransaction ==
    /\ LET S == begin_transaction(Session)
       IN  /\ StoreSession(S)
           /\ last' = Call("begin_transaction", None, <<>>, S.D.exc)
           /\ snap' = IF S.D.exc = None THEN Snapshot ELSE snap
           /\ txn_phase' = IF S.D.exc = None THEN "inserts" ELSE Phase("begin_transaction")
    /\ UNCHANGED <<impl, applied>>

\* a run of the pending closures stays within the bounds
RoomCommit ==
    /\ StoredCount + PendingInserts <= MaxRecords
    /\ RoomUuid(0)

Commit ==
    /\ RoomCommit
    /\ LET S == IF impl = "modular" THEN TM_commit(Session) ELSE DB_commit(Session)
       IN  /\ StoreSession(S)
           /\ last' = Call("commit", None, <<>>, S.D.exc)
           /\ TxnHistory(S, "commit")
    /\ UNCHANGED <<impl, applied>>

Rollback ==
    /\ LET S == rollback(Session)
       IN  /\ StoreSession(S)
           /\ last' = Call("rollback", None, <<>>, S.D.exc)
           /\ TxnHistory(S, "rollback")
    /\ UNCHANGED <<impl, applied>>

----------------------------------------------------------------------------
(* Read calls: what they return is the operator's value; the action keeps  *)
(* what the call does to the state and the exception it ends with.         *)

Read(op, c, R) ==
    /\ Store(R.D)
    /\ last' = Call(op, c, <<>>, R.exc)
    /\ Noted(op)
    /\ UNCHANGED <<impl, applied, transaction_active, transaction_buffer, snap>>

find(D, c, query, limit, skip, engine) ==
    IF engine = "modular" THEN DM_find(D, c, query, limit, skip)
    ELSE DB_find(D, c, query, limit, skip)

count(D, c, query, engine) ==
    IF engine = "modular" THEN DM_count(D, c, query) ELSE DB_count(D, c, query)

exists(D, c, record_id, engine) ==
    IF engine = "modular" THEN DM_exists(D, c, record_id) ELSE DB_exists(D, c, record_id)

aggregate(D, c, group_by, engine) ==
    IF engine = "modular" THEN DM_aggregate(D, c, group_by) ELSE DB_aggregate(D, c, group_by)

Find(c, query) == Read("find", c, find(DB, c, query, NoLimit, 0, impl))

Count(c, query) == Read("count", c, count(DB, c, query, impl))

Exists(c, record_id) == Read("exists", c, exists(DB, c, record_id, impl))

Aggregate(c) == Read("aggregate", c, aggregate(DB, c, "f", impl))

----------------------------------------------------------------------------

\* The engine with transactions: the calls a transaction defers, the
\* transaction calls and the reads.  clear_collection, which no transaction
\* defers, is among the calls of NextDirect below.
Next ==
    \/ \E c \in Collections : CreateCollection(c)
    \/ \E c \in Collections : \E data \in InsertData(c) : Insert(c, data)
    \/ \E data_list \in InsertLists : InsertMany("c1", data_list)
    \/ \E record_id \in RecordIds, update_data \in Patches : Update("c1", record_id, update_data)
    \/ \E record_id \in RecordIds : Delete("c1", record_id)
    \/ BeginTransaction
    \/ Commit
    \/ Rollback
    \/ \E c \in Collections : \E query \in Queries(c) : Find(c, query)
    \/ Count("c1", EmptyDict)
    \/ \E record_id \in RecordIds : Exists("c1", record_id)
    \/ Aggregate("c1")

Spec == Init /\ [][Next]_vars

----------------------------------------------------------------------------
(* The engine used without transactions: every call acts at once *)

NextDirect ==
    \/ \E c \in Collections : CreateCollection(c)
    \/ ClearCollection("c1")
    \/ DropCollection("c1")
    \/ ExportCollection("c1")
    \/ \E input_file \in ImportFiles : ImportCollection("c1", input_file)
    \/ \E c \in Collections : \E data \in InsertData(c) : Insert(c, data)
    \/ \E record_id \in RecordIds, update_data \in DirectPatches :
          Update("c1", record_id, update_data)
    \/ \E record_id \in RecordIds : Delete("c1", record_id)
    \/ \E c \in Collections : \E query \in Queries(c) : Find(c, query)
    \/ Count("c1", EmptyDict)
    \/ \E record_id \in RecordIds : Exists("c1", record_id)
    \/ Aggregate("c1")

SpecDirect == Init /\ [][NextDirect]_vars

----------------------------------------------------------------------------
(* One collection that is created, filled, dropped and read, with and      *)
(* without a transaction around the calls.                                 *)

NextDrop ==
    \/ CreateCollection("c1")
    \/ DropCollection("c1")
    \/ \E data \in InsertData("c1") : Insert("c1", data)
    \/ BeginTransaction
    \/ Commit
    \/ Rollback
    \/ \E query \in Queries("c1") : Find("c1", query)
    \/ Count("c1", EmptyDict)
    \/ \E record_id \in RecordIds : Exists("c1", record_id)
    \/ Aggregate("c1")

SpecDrop == Init /\ [][NextDrop]_vars

----------------------------------------------------------------------------
(* Durability: records are inserted and flushed, the engine is discarded   *)
(* and a fresh one is opened on the same directory.                        *)

\* a flush of c's write buffer asked for by the caller: buffer_manager.flush_buffer(c)
\* on the modular engine, _flush_buffer(c) on the engine of database.py
Flush(c) ==
    /\ LET D1 == IF impl = "modular" THEN flush_buffer(DB, c) ELSE _flush_buffer(DB, c)
       IN  /\ Store(D1)
           /\ last' = Call("flush", c, <<>>, D1.exc)
    /\ Noted("flush")
    /\ UNCHANGED <<impl, applied, transaction_active, transaction_buffer, snap>>

\* FluxDB(db_path) on the directory of the engine that is dropped: the files
\* stay; the write buffer, the index cache and the transaction state start empty
Reopen ==
    /\ buffer' = EmptyDict
    /\ index_cache' = EmptyDict
    /\ transaction_active' = FALSE
    /\ transaction_buffer' = <<>>
    /\ last' = Call("open", None, <<>>, None)
    /\ snap' = NoSnap
    /\ txn_phase' = "idle"
    /\ UNCHANGED <<impl, applied, paths, fdb, idx, uuid_count>>

NextDurable ==
    \/ \E c \in Collections : CreateCollection(c)
    \/ \E c \in Collections : \E data \in InsertData(c) : Insert(c, data)
    \/ \E c \in Collections : Flush(c)
    \/ Reopen
    \/ \E c \in Collections : \E record_id \in RecordIds : Find(c, [_id |-> record_id])
    \/ \E c \in Collections : \E query \in Queries(c) : Find(c, query)

SpecDurable == Init /\ [][NextDurable]_vars

----------------------------------------------------------------------------
(* Scenario S5 of the specification: one collection, created with its      *)
(* index, and the calls begin_transaction, insert, count and rollback.     *)

\* inserts one run of the scenario may make
MaxInserts == 3

InitS5 ==
    LET D == create_collection(
                 [paths |-> {}, fdb |-> [c \in Collections |-> <<>>], idx |-> EmptyDict,
                  buffer |-> EmptyDict, cache |-> EmptyDict, uuid |-> 0, exc |-> None],
                 "c1", IndexedFields("c1"))
    IN  /\ impl \in Impls
        /\ paths = D.paths
        /\ fdb = D.fdb
        /\ idx = D.idx
        /\ buffer = D.buffer
        /\ index_cache = D.cache
        /\ transaction_active = FALSE
        /\ transaction_buffer = <<>>
        /\ uuid_count = 0
        /\ last = [op |-> "create_collection", col |-> "c1", ids |-> <<>>, exc |-> None,
                   ret |-> None, found |-> FALSE, out |-> <<>>, phase |-> "idle",
               pending |-> 0]
        /\ snap = NoSnap
        /\ txn_phase = "idle"
        /\ applied = NotApplied

\* insert into c1 while the scenario has room for a record and for its uuid4() draws
InsertS5(data) ==
    /\ StoredCount + Len(transaction_buffer) < MaxInserts
    /\ uuid_count + UuidCost(data) <= MaxInserts
    /\ InsertCall("c1", data)

NextS5 ==
    \/ BeginTransaction
    \/ \E data \in InsertData("c1") : InsertS5(data)
    \/ Count("c1", EmptyDict)
    \/ Rollback

SpecS5 == InitS5 /\ [][NextS5]_vars

----------------------------------------------------------------------------
(* BinaryStorage on bytes.  A text is the sequence of its utf-8 bytes (the *)
(* texts used are ASCII, one byte per character), a dict is the sequence   *)
(* of its (key, value) items in insertion order, and what decode_record    *)
(* returns is a function from keys to values, or NoRecord for None.        *)

\* struct.pack('!I', n): four bytes, most significant first
U32(n) == << n \div 16777216, (n \div 65536) % 256, (n \div 256) % 256, n % 256 >>

\* struct.unpack('!I', b)[0]
FromU32(b) == ((b[1] * 256 + b[2]) * 256 + b[3]) * 256 + b[4]

\* n bytes of value byte
Fill(byte, n) == [i \in 1..n |-> byte]

\* data[i:j] of Python, on a sequence indexed from 1
Slice(data, i, j) == SubSeq(data, i + 1, IF j < Len(data) THEN j ELSE Len(data))

\* b.rstrip(b'\0')
RECURSIVE RStripNul(_)
RStripNul(b) ==
    IF b # <<>> /\ b[Len(b)] = 0 THEN RStripNul(SubSeq(b, 1, Len(b) - 1)) ELSE b

\* '_id'
IdKey == <<95, 105, 100>>

\* the width of the id field of a frame
IdWidth == 36

\* str(uuid.uuid4()): 36 ASCII characters
Uuid4Text == Fill(117, IdWidth)

\* data.get('_id', default) on the items of a dict
ItemsGet(items, key, default) ==
    IF \E i \in 1..Len(items) : items[i][1] = key
    THEN items[CHOOSE i \in 1..Len(items) : items[i][1] = key][2]
    ELSE default

\* data[key] = value on the items of a dict: a present key keeps its place
ItemsSet(items, key, value) ==
    IF \E i \in 1..Len(items) : items[i][1] = key
    THEN [i \in 1..Len(items) |-> IF items[i][1] = key THEN <<key, value>> ELSE items[i]]
    ELSE Append(items, <<key, value>>)

\* the dict a sequence of items stands for
AsDict(items) ==
    [k \in {items[i][1] : i \in 1..Len(items)} |-> ItemsGet(items, k, <<>>)]

\* b''.join of the parts the loop over data.items() appends
RECURSIVE JoinFields(_)
JoinFields(items) ==
    IF items = <<>> THEN <<>>
    ELSE U32(Len(items[1][1])) \o items[1][1] \o U32(Len(items[1][2])) \o items[1][2]
         \o JoinFields(Tail(items))

\* what len(body) + 36 would be without the id field
PrefixOfBodyOnly(body) == Len(body)

\* len(body) + 36, the value of the length prefix
PrefixValue(body) == Len(body) + IdWidth

\* data after BinaryStorage.encode_record(data): the record with its _id
EncodedData(items) == ItemsSet(items, IdKey, ItemsGet(items, IdKey, Uuid4Text))

\* BinaryStorage.encode_record(data), the bytes it returns
BinaryStorage_encode_record(items) ==
    LET data == EncodedData(items)
        record_id == ItemsGet(data, IdKey, <<>>)
        record_id_bytes == Slice(record_id \o Fill(0, IdWidth - Len(record_id)), 0, IdWidth)
        body == U32(Len(data)) \o JoinFields(data)
    IN  U32(PrefixValue(body)) \o record_id_bytes \o body

\* decode_record returned None
NoRecord == [ok |-> FALSE]

\* the loop of decode_record over the fields, num_fields rounds left
RECURSIVE DecodeFields(_, _, _, _)
DecodeFields(data, offset, num_fields, record) ==
    IF num_fields = 0 THEN [ok |-> TRUE, record |-> record]
    ELSE IF Len(data) < offset + 4 THEN NoRecord
    ELSE LET key_len == FromU32(Slice(data, offset, offset + 4))
             o1 == offset + 4
         IN  IF Len(data) < o1 + key_len THEN NoRecord
             ELSE LET key == Slice(data, o1, o1 + key_len)
                      o2 == o1 + key_len
                  IN  IF Len(data) < o2 + 4 THEN NoRecord
                      ELSE LET value_len == FromU32(Slice(data, o2, o2 + 4))
                               o3 == o2 + 4
                           IN  IF Len(data) < o3 + value_len THEN NoRecord
                               ELSE DecodeFields(data, o3 + value_len, num_fields - 1,
                                        DictSet(record, key,
                                                Slice(data, o3, o3 + value_len)))

\* BinaryStorage.decode_record(data)
BinaryStorage_decode_record(data) ==
    IF Len(data) < IdWidth THEN NoRecord
    ELSE LET record_id == RStripNul(Slice(data, 0, IdWidth))
             record == [k \in {IdKey} |-> record_id]
         IN  IF Len(data) < IdWidth + 4 THEN NoRecord
             ELSE DecodeFields(data, IdWidth + 4,
                               FromU32(Slice(data, IdWidth, IdWidth + 4)), record)

\* the texts fields are drawn from: every text of at most MaxText bytes over
\* the letter a and the NUL byte
MaxText == 2
TextBytes == {0, 97}
Texts == UNION {[1..n -> TextBytes] : n \in 0..MaxText}

\* the ids: the short texts, and texts of 35, 36 and 37 bytes
IdTexts == Texts \cup {Fill(97, IdWidth - 1), Fill(97, IdWidth), Fill(97, IdWidth + 1)}

\* the keys of the fields other than _id: 'f' and the empty key
FieldKeys == {<<102>>, <<>>}

\* the dicts handed to encode_record: with and without _id, the _id before or
\* after the other field
CodecRecords ==
    {<<>>}
    \cup {<< <<k, v>> >> : k \in FieldKeys, v \in Texts}
    \cup {<< <<IdKey, id>> >> : id \in IdTexts}
    \cup UNION {{<< <<IdKey, id>>, <<k, v>> >>, << <<k, v>>, <<IdKey, id>> >>} :
                    id \in IdTexts, k \in FieldKeys, v \in Texts}

\* an engine that has just been opened on an empty directory
FreshEngine ==
    /\ impl \in Impls
    /\ paths = {}
    /\ fdb = [c \in Collections |-> <<>>]
    /\ idx = EmptyDict
    /\ buffer = EmptyDict
    /\ index_cache = EmptyDict
    /\ transaction_active = FALSE
    /\ transaction_buffer = <<>>
    /\ uuid_count = 0
    /\ last = [op |-> "open", col |-> None, ids |-> <<>>, exc |-> None,
               ret |-> None, found |-> FALSE, out |-> <<>>, phase |-> "idle",
               pending |-> 0]
    /\ snap = NoSnap
    /\ txn_phase = "idle"

\* the variables of the engine, which a call of the codec leaves alone
engine_vars == <<impl, paths, fdb, idx, buffer, index_cache, transaction_active,
                 transaction_buffer, uuid_count, last, snap, txn_phase>>

InitCodec ==
    /\ FreshEngine
    /\ applied \in {[fn |-> "input", data |-> r] : r \in CodecRecords}

\* frame = storage.encode_record(data)
EncodeRecord ==
    /\ applied.fn = "input"
    /\ applied' = [fn |-> "encode_record", data |-> applied.data,
                   after |-> EncodedData(applied.data),
                   frame |-> BinaryStorage_encode_record(applied.data)]
    /\ UNCHANGED engine_vars

\* storage.decode_record(frame[4:]): the body of the frame, as the loaders read it
DecodeRecord ==
    /\ applied.fn = "encode_record"
    /\ applied' = [applied EXCEPT !.fn = "decode_record"] @@
                  [decoded |-> BinaryStorage_decode_record(
                                   Slice(applied.frame, 4, Len(applied.frame)))]
    /\ UNCHANGED engine_vars

NextCodec ==
    \/ EncodeRecord
    \/ DecodeRecord

SpecCodec == InitCodec /\ [][NextCodec]_vars

----------------------------------------------------------------------------
(* RecordLoader on bytes: the scan of a log file.  The file is the         *)
(* sequence of its bytes; keep stands for "record and record['_id'] in     *)
(* record_ids", and for "record" alone when every id is asked for.         *)

\* a scan that gives up the records it collected when it meets a frame it
\* cannot read
BreakLosingRecords(records) == <<>>

\* the break of the scan loop: the records collected so far are returned
Break(records) == records

\* the while loop of load_all_records and load_records_by_ids from offset on.
\* record_len is compared to what the file holds after the length prefix,
\* which is offset + 4 + record_len > file_size
RECURSIVE ScanFrom(_, _, _, _, _)
ScanFrom(file, offset, records, all_ids, record_ids) ==
    LET file_size == Len(file)
    IN  IF ~(offset < file_size) THEN records
        ELSE LET len_bytes == Slice(file, offset, offset + 4)
             IN  IF Len(len_bytes) < 4 THEN Break(records)
                 ELSE LET record_len == FromU32(len_bytes)
                      IN  IF record_len > file_size - offset - 4 THEN Break(records)
                          ELSE LET record == BinaryStorage_decode_record(
                                       Slice(file, offset + 4, offset + 4 + record_len))
                                   keep == /\ record.ok
                                           /\ all_ids \/ record.record[IdKey] \in record_ids
                               IN  ScanFrom(file, offset + 4 + record_len,
                                            IF keep THEN Append(records, record.record)
                                            ELSE records,
                                            all_ids, record_ids)

\* RecordLoader.load_all_records(collection_path) on a file with these bytes
RecordLoader_load_all_records(file) == ScanFrom(file, 0, <<>>, TRUE, {})

\* RecordLoader.load_records_by_ids(collection_path, record_ids)
RecordLoader_load_records_by_ids(file, record_ids) ==
    ScanFrom(file, 0, <<>>, FALSE, record_ids)

\* the frames a log is made of
MaxFrames == 2

\* the records in the frames: ids a and b, with and without a field f
ScanRecords ==
    { << <<IdKey, <<97>> >> >>,
      << <<IdKey, <<98>> >>, << <<102>>, <<97>> >> >> }

\* the logs: one to MaxFrames complete frames
ScanLogs == UNION {[1..n -> ScanRecords] : n \in 1..MaxFrames}

\* b''.join(encode_record(r) for r in frames)
RECURSIVE JoinFrames(_)
JoinFrames(frames) ==
    IF frames = <<>> THEN <<>>
    ELSE BinaryStorage_encode_record(Head(frames)) \o JoinFrames(Tail(frames))

\* the bytes appended to a log: fewer than four bytes; a prefix that
\* announces no byte, one byte, or more bytes than the file holds; a frame of
\* 40 NUL bytes, which decodes; a frame that announces a field it does not hold
Garbage ==
    { <<97>>, <<0, 0, 0>>, <<0, 0, 0, 0>>, <<0, 0, 0, 1, 97>>, <<0, 0, 0, 200>>,
      <<127, 255, 255, 255>>,
      U32(IdWidth + 4) \o Fill(0, IdWidth + 4),
      U32(IdWidth + 4) \o Fill(97, IdWidth) \o U32(1) }

\* the record ids load_records_by_ids is asked for
ScanIdSets == {{<<97>>}, {<<98>>}, {<<97>>, <<98>>}}

InitScan ==
    /\ FreshEngine
    /\ applied \in {[fn |-> "log", frames |-> frames, file |-> JoinFrames(frames),
                     damage |-> "none"] : frames \in ScanLogs}

\* the last N bytes of the file are cut, N smaller than the last frame
CutTail(N) ==
    /\ applied.fn = "log"
    /\ applied.damage = "none"
    /\ N < Len(BinaryStorage_encode_record(applied.frames[Len(applied.frames)]))
    /\ applied' = [applied EXCEPT !.file = SubSeq(@, 1, Len(@) - N), !.damage = "cut"]
    /\ UNCHANGED engine_vars

\* bytes are appended to the file
AppendGarbage(bytes) ==
    /\ applied.fn = "log"
    /\ applied.damage = "none"
    /\ applied' = [applied EXCEPT !.file = @ \o bytes, !.damage = "appended"]
    /\ UNCHANGED engine_vars

\* loader.load_all_records(path)
LoadAllRecords ==
    /\ applied.fn = "log"
    /\ applied' = [applied EXCEPT !.fn = "load_all_records"] @@
                  [asked |-> {}, records |-> RecordLoader_load_all_records(applied.file)]
    /\ UNCHANGED engine_vars

\* loader.load_records_by_ids(path, record_ids)
LoadRecordsByIds(record_ids) ==
    /\ applied.fn = "log"
    /\ applied' = [applied EXCEPT !.fn = "load_records_by_ids"] @@
                  [asked |-> record_ids,
                   records |-> RecordLoader_load_records_by_ids(applied.file, record_ids)]
    /\ UNCHANGED engine_vars

\* the length of the longest frame of the logs
MaxFrameLen ==
    LET lens == {Len(BinaryStorage_encode_record(r)) : r \in ScanRecords}
    IN  CHOOSE n \in lens : \A m \in lens : m <= n

NextScan ==
    \/ \E N \in 1..MaxFrameLen : CutTail(N)
    \/ \E bytes \in Garbage : AppendGarbage(bytes)
    \/ LoadAllRecords
    \/ \E record_ids \in ScanIdSets : LoadRecordsByIds(record_ids)

SpecScan == InitScan /\ [][NextScan]_vars

----------------------------------------------------------------------------
(* find with an operator condition.  The condition {'$in': value} is given *)
(* by its list, as the set of its elements.                                *)

\* float(v) returns: the texts of numbers among the values of the model
IsNumeric(v) == v \in {"5", "7"}

\* str() of the condition {'$in': [...]}, the key query_index looks up
StrOfIn(value) == "{'$in': [...]}"

\* _filter_records, one record against {key: {'$in': value}}: float() of a
\* value that is not empty and not a number raises ValueError, which makes
\* matches False
matches_in(record, key, value) ==
    LET record_value == Get(record, key, "")
    IN  IF record_value # "" /\ ~IsNumeric(record_value) THEN FALSE
        ELSE record_value \in value

\* _filter_records(records, {key: {'$in': value}}), the same in both engines
filter_records_in(records, key, value) ==
    SelectSeqBy(records, {r \in Range(records) : matches_in(r, key, value)})

\* DataManager.find(collection, {key: {'$in': value}})
DM_find_in(D, c, key, value) ==
    IF c \notin D.paths THEN Result(D, <<>>, 0, FALSE, "CollectionNotFoundError")
    ELSE IF flush_buffer(D, c).exc # None THEN Result(D, <<>>, 0, FALSE, "NameError")
    ELSE LET D1 == flush_buffer(D, c)
             query == [k \in {key} |-> StrOfIn(value)]
             D2 == LoadedCache(D1, c)
             loaded == IF can_use_index(D1, c, query)
                       THEN load_records_by_ids(D2, c, query_index(D2, c, query))
                       ELSE load_all_records(D2, c)
             records == filter_records_in(loaded, key, value)
         IN  Result(D2, records, Len(records), TRUE, None)

\* FluxDB.find(collection, {key: {'$in': value}}) of database.py
DB_find_in(D, c, key, value) ==
    IF c \notin D.paths THEN Result(D, <<>>, 0, FALSE, "CollectionNotFoundError")
    ELSE LET query == [k \in {key} |-> StrOfIn(value)]
             D2 == LoadedCache(D, c)
             loaded == IF can_use_index(D, c, query)
                       THEN load_records_by_ids(D2, c, query_index(D2, c, query))
                       ELSE load_all_records(D2, c)
             filtered == filter_records_in(loaded, key, value)
             buffered_records == DecodeFrames(Get(D2.buffer, c, <<>>))
             records == IF c \notin DOMAIN D2.buffer THEN filtered
                        ELSE filtered \o filter_records_in(buffered_records, key, value)
         IN  Result(D2, records, Len(records), TRUE, None)

find_in(D, c, key, value, engine) ==
    IF engine = "modular" THEN DM_find_in(D, c, key, value)
    ELSE DB_find_in(D, c, key, value)

\* the lists of the $in conditions
InLists == {{"x", "5"}, {"x", "y"}, {"5"}}

FindIn(c, key, value) == Read("find", c, find_in(DB, c, key, value, impl))

----------------------------------------------------------------------------
(* find with a sort mapping.  A sort mapping is the sequence of its        *)
(* (field, direction) items.  key_func gives a record the list of its      *)
(* (value, direction) pairs, the value turned into a float when float()    *)
(* accepts it; sorted compares these lists as Python compares lists.       *)

\* float(v) for the texts of numbers of the model
FloatOf(v) == IF v = "5" THEN 5 ELSE 7

\* the texts of the model in the order of Python's str comparison: the empty
\* text, the ids read from a frame with its length prefix (they start with a
\* NUL byte), digits, letters
TextOrder ==
    << "", Garbled("7"), Garbled("a"), Garbled("b"), "5", "7", "a", "b",
       "u1", "u2", "u3", "u4", "u5", "u6", "u7", "u8", "u9", "x", "y", "z" >>

TextRank(v) == CHOOSE i \in 1..Len(TextOrder) : TextOrder[i] = v

\* key_func(record): the values of the sort fields, missing = ""
key_func(record, sort) == [i \in 1..Len(sort) |-> Get(record, sort[i][1], "")]

\* the first position where two keys differ, 0 when they are equal
FirstDiff(k1, k2) ==
    IF k1 = k2 THEN 0 ELSE CHOOSE i \in 1..Len(k1) : k1[i] # k2[i] /\ \A j \in 1..(i-1) : k1[j] = k2[j]

\* comparing the two keys raises TypeError: at the first position where they
\* differ one holds a float and the other a str
CompareRaises(k1, k2) ==
    LET i == FirstDiff(k1, k2)
    IN  i # 0 /\ IsNumeric(k1[i]) # IsNumeric(k2[i])

\* k1 < k2 for keys whose comparison does not raise
KeyLess(k1, k2) ==
    LET i == FirstDiff(k1, k2)
    IN  /\ i # 0
        /\ IF IsNumeric(k1[i]) THEN FloatOf(k1[i]) < FloatOf(k2[i])
           ELSE TextRank(k1[i]) < TextRank(k2[i])

\* any(v == -1 for v in sort.values())
AnyDescending(sort) == \E i \in 1..Len(sort) : sort[i][2] = -1

\* one record placed into a sorted list: before the first record that has to
\* come after it, behind the records of equal key
RECURSIVE InsertByKey(_, _, _, _)
InsertByKey(sorted, record, sort, reverse) ==
    IF sorted = <<>> THEN <<record>>
    ELSE LET after == IF reverse
                      THEN KeyLess(key_func(Head(sorted), sort), key_func(record, sort))
                      ELSE KeyLess(key_func(record, sort), key_func(Head(sorted), sort))
         IN  IF after THEN <<record>> \o sorted
             ELSE <<Head(sorted)>> \o InsertByKey(Tail(sorted), record, sort, reverse)

\* sorted(records, key=key_func, reverse=reverse) when no comparison raises
RECURSIVE SortedBy(_, _, _)
SortedBy(records, sort, reverse) ==
    IF records = <<>> THEN <<>>
    ELSE InsertByKey(SortedBy(SubSeq(records, 1, Len(records) - 1), sort, reverse),
                     records[Len(records)], sort, reverse)

\* _sort_records(records, sort), the same in both engines: [exc, records].
\* sorted compares, directly, two records of every pair that is adjacent in
\* the result, so it raises when the keys of any two records cannot be compared
_sort_records(records, sort) ==
    IF \E i, j \in 1..Len(records) :
           CompareRaises(key_func(records[i], sort), key_func(records[j], sort))
    THEN [exc |-> "TypeError", records |-> <<>>]
    ELSE [exc |-> None, records |-> SortedBy(records, sort, AnyDescending(sort))]

\* DataManager.find(collection, sort=sort): flush, load all, sort
DM_find_sorted(D, c, sort) ==
    IF c \notin D.paths THEN Result(D, <<>>, 0, FALSE, "CollectionNotFoundError")
    ELSE IF flush_buffer(D, c).exc # None THEN Result(D, <<>>, 0, FALSE, "NameError")
    ELSE LET D1 == flush_buffer(D, c)
             sorted == _sort_records(load_all_records(D1, c), sort)
         IN  IF sorted.exc # None THEN Result(D1, <<>>, 0, FALSE, sorted.exc)
             ELSE Result(D1, sorted.records, Len(sorted.records), TRUE, None)

\* FluxDB.find(collection, sort=sort) of database.py: load all, sort; the
\* buffered frames, decoded with their length prefix, are appended and the
\* list is sorted again
DB_find_sorted(D, c, sort) ==
    IF c \notin D.paths THEN Result(D, <<>>, 0, FALSE, "CollectionNotFoundError")
    ELSE LET sorted == _sort_records(load_all_records(D, c), sort)
             buffered_records == DecodeFrames(Get(D.buffer, c, <<>>))
             again == _sort_records(sorted.records \o buffered_records, sort)
         IN  IF sorted.exc # None THEN Result(D, <<>>, 0, FALSE, sorted.exc)
             ELSE IF c \notin DOMAIN D.buffer
             THEN Result(D, sorted.records, Len(sorted.records), TRUE, None)
             ELSE IF again.exc # None THEN Result(D, <<>>, 0, FALSE, again.exc)
             ELSE Result(D, again.records, Len(again.records), TRUE, None)

find_sorted(D, c, sort, engine) ==
    IF engine = "modular" THEN DM_find_sorted(D, c, sort) ELSE DB_find_sorted(D, c, sort)

\* the sort mappings: one field up and down, a field no record has, two fields
Sorts ==
    { << <<"f", 1>> >>, << <<"f", -1>> >>, << <<"g", -1>> >>,
      << <<"f", 1>>, <<"_id", -1>> >> }

FindSorted(c, sort) == Read("find", c, find_sorted(DB, c, sort, impl))

----------------------------------------------------------------------------
(* find with limit and skip *)

\* the values of limit (None among them) and of skip
Limits == {NoLimit, 0, 1, 2}
Skips == {0, 1, 2}

FindWindow(c, query, limit, skip) == Read("find", c, find(DB, c, query, limit, skip, impl))

----------------------------------------------------------------------------
\* Collections that are filled by insert and by import_collection, and read
\* by find with an operator condition, a sort mapping, or limit and skip.
NextQuery ==
    \/ \E c \in Collections : CreateCollection(c)
    \/ \E c \in Collections : \E data \in InsertData(c) : Insert(c, data)
    \/ \E input_file \in ImportFiles : ImportCollection("c1", input_file)
    \/ \E c \in Collections, value \in InLists : FindIn(c, "f", value)
    \/ \E c \in Collections, sort \in Sorts : FindSorted(c, sort)
    \/ \E c \in Collections : \E query \in Queries(c), limit \in Limits, skip \in Skips :
          FindWindow(c, query, limit, skip)

SpecQuery == Init /\ [][NextQuery]_vars

----------------------------------------------------------------------------
(* aggregate: the $group stage on the records find returned.  The stage    *)
(* {'$group': {'_id': G, out: {op: arg}, ...}} is given by G and by its    *)
(* accumulators, records [out, op, arg].  An output group is [_id, acc]:   *)
(* its key and the output fields it carries, with their numbers.           *)

\* a $sum that adds one per record, whatever the field holds
SumTermAsCount(record, F) == 1

\* float(record.get(F, 0)), and 0 where float() raises ValueError: what a
\* record adds to a $sum accumulator
SumTerm(record, F) ==
    IF F \in DOMAIN record /\ IsNumeric(record[F]) THEN FloatOf(record[F]) ELSE 0

\* what a record adds to the output field of an accumulator
group_add(accumulator, record) ==
    IF accumulator.op = "$sum" THEN SumTerm(record, accumulator.arg) ELSE 1

\* the accumulators that get a start value and are added to: $sum and $count
Accumulated(accumulators) ==
    {a \in Range(accumulators) : a.op \in {"$sum", "$count"}}

\* grouped[key] = {'_id': key} and the start value 0 of every $sum and $count
group_new(key, accumulators) ==
    [_id |-> key, acc |-> [out \in {a.out : a \in Accumulated(accumulators)} |-> 0]]

\* the loop "for record in records" of the $group stage; grouped holds the
\* groups in the order their keys were first met
RECURSIVE group_records(_, _, _, _)
group_records(records, group_by, accumulators, grouped) ==
    IF records = <<>> THEN grouped
    ELSE LET record == Head(records)
             key == Get(record, group_by, None)
             known == \E i \in 1..Len(grouped) : grouped[i]["_id"] = key
             started == IF known THEN grouped
                        ELSE Append(grouped, group_new(key, accumulators))
             added(g) ==
                 [g EXCEPT !.acc =
                     [out \in DOMAIN g.acc |->
                         g.acc[out]
                         + group_add(CHOOSE a \in Accumulated(accumulators) : a.out = out,
                                     record)]]
         IN  group_records(Tail(records), group_by, accumulators,
                 [i \in 1..Len(started) |->
                     IF started[i]["_id"] = key THEN added(started[i]) ELSE started[i]])

\* the records a $group stage is run on: with and without the group field g,
\* with a numeric, a non-numeric and no field f
MaxGroupRecords == 2
GroupInputs ==
    LET one == {[_id |-> "a"]} \cup {[_id |-> "a", g |-> G] : G \in {"A", "B"}}
               \cup {[_id |-> "a", f |-> F] : F \in {"5", "7", "x"}}
               \cup {[_id |-> "a", g |-> G, f |-> F] : G \in {"A", "B"}, F \in {"5", "7", "x"}}
    IN  UNION {[1..n -> one] : n \in 0..MaxGroupRecords}

\* the stage of scenario S6: total is a $sum, n a $count, avg an $avg, all on f
GroupAccumulators ==
    << [out |-> "total", op |-> "$sum", arg |-> "f"],
       [out |-> "n", op |-> "$count", arg |-> "True"],
       [out |-> "avg", op |-> "$avg", arg |-> "f"] >>

InitGroup ==
    /\ FreshEngine
    /\ applied \in {[fn |-> "records", records |-> records] : records \in GroupInputs}

\* aggregate(c, [{'$group': {'_id': 'g', ...}}]) once find has returned records
GroupStage ==
    /\ applied.fn = "records"
    /\ applied' = [fn |-> "aggregate", records |-> applied.records,
                   out |-> group_records(applied.records, "g", GroupAccumulators, <<>>)]
    /\ UNCHANGED engine_vars

NextGroup == GroupStage

SpecGroup == InitGroup /\ [][NextGroup]_vars

-----------------------------------------------------------------------------
(* Two caller threads on one collection, statement by statement.  Neither
   engine takes a lock: a thread may be suspended between any two statements
   of _insert, append_to_buffer and the flush.  self.buffer[collection] is a
   name bound to a list object; `heap` holds the list objects, `bound` the one
   the name is bound to (0 while the key is absent), `log` the file. *)

Threads == {1, 2}
\* insert and flush calls one thread makes
MaxCalls == 2

\* the frame the k-th call of thread t inserts
ThreadFrame(t, k) == <<t, k>>

IdleThread == [pc |-> "idle", calls |-> 0, it |-> 0, i |-> 0, out |-> <<>>, exc |-> None]

InitThreads ==
    /\ FreshEngine
    /\ applied = [fn |-> "threads", heap |-> <<>>, bound |-> 0, log |-> <<>>,
                  appended |-> {}, th |-> [t \in Threads |-> IdleThread]]

\* the state with thread t moved on
ThreadStep(t, fields, pc) ==
    [fields EXCEPT !.th[t].pc = pc]

\* insert is called: `if collection not in self.buffer`
InsertTest(t) ==
    /\ applied.th[t].pc = "idle"
    /\ applied.th[t].calls < MaxCalls
    /\ applied' = ThreadStep(t, [applied EXCEPT !.th[t].calls = @ + 1, !.th[t].exc = None],
                             IF applied.bound = 0 THEN "init" ELSE "append")
    /\ UNCHANGED engine_vars

\* self.buffer[collection] = []
InsertInit(t) ==
    /\ applied.th[t].pc = "init"
    /\ applied' = ThreadStep(t, [applied EXCEPT !.heap = Append(@, <<>>),
                                                !.bound = Len(applied.heap) + 1], "append")
    /\ UNCHANGED engine_vars

\* self.buffer[collection].append(record_bytes)
InsertAppend(t) ==
    /\ applied.th[t].pc = "append"
    /\ LET frame == ThreadFrame(t, applied.th[t].calls)
       IN  applied' = ThreadStep(t, [applied EXCEPT !.heap[applied.bound] = Append(@, frame),
                                                    !.appended = @ \cup {frame}], "full")
    /\ UNCHANGED engine_vars

\* `if len(self.buffer[collection]) >= self.buffer_size`: flush, or return
InsertFull(t) ==
    /\ applied.th[t].pc = "full"
    /\ applied' = ThreadStep(t, applied,
                             IF Len(applied.heap[applied.bound]) >= buffer_size
                             THEN "flush" ELSE "idle")
    /\ UNCHANGED engine_vars

\* a read is called and flushes the collection first
FlushCall(t) ==
    /\ applied.th[t].pc = "idle"
    /\ applied.th[t].calls < MaxCalls
    /\ applied' = ThreadStep(t, [applied EXCEPT !.th[t].calls = @ + 1, !.th[t].exc = None],
                             "flush")
    /\ UNCHANGED engine_vars

\* `if col in self.buffer and self.buffer[col]`; the modular engine then
\* evaluates os.path.join with os never imported
FlushTest(t) ==
    /\ applied.th[t].pc = "flush"
    /\ applied' =
          IF applied.bound = 0 \/ applied.heap[applied.bound] = <<>>
          THEN ThreadStep(t, applied, "idle")
          ELSE IF impl = "modular"
          THEN ThreadStep(t, [applied EXCEPT !.th[t].exc = "NameError"], "idle")
          ELSE ThreadStep(t, applied, "open")
    /\ UNCHANGED engine_vars

\* open(path, 'ab') and `for record in self.buffer[col]`: the iterator is
\* taken over the list the name is bound to now
FlushOpen(t) ==
    /\ applied.th[t].pc = "open"
    /\ applied' = ThreadStep(t, [applied EXCEPT !.th[t].it = applied.bound,
                                                !.th[t].i = 0,
                                                !.th[t].out = <<>>], "write")
    /\ UNCHANGED engine_vars

\* one round of the loop, f.write(record) into the file object; an exhausted
\* iterator leaves the with block, which appends what was written to the file
FlushWrite(t) ==
    /\ applied.th[t].pc = "write"
    /\ LET me == applied.th[t]
           list == applied.heap[me.it]
       IN  applied' =
              IF me.i < Len(list)
              THEN [applied EXCEPT !.th[t].i = @ + 1,
                                   !.th[t].out = Append(@, list[me.i + 1])]
              ELSE ThreadStep(t, [applied EXCEPT !.log = @ \o me.out], "reset")
    /\ UNCHANGED engine_vars

\* self.buffer[col] = []
FlushReset(t) ==
    /\ applied.th[t].pc = "reset"
    /\ applied' = ThreadStep(t, [applied EXCEPT !.heap = Append(@, <<>>),
                                                !.bound = Len(applied.heap) + 1], "idle")
    /\ UNCHANGED engine_vars

NextThreads ==
    \E t \in Threads :
        \/ InsertTest(t)
        \/ InsertInit(t)
        \/ InsertAppend(t)
        \/ InsertFull(t)
        \/ FlushCall(t)
        \/ FlushTest(t)
        \/ FlushOpen(t)
        \/ FlushWrite(t)
        \/ FlushReset(t)

SpecThreads == InitThreads /\ [][NextThreads]_vars

-----------------------------------------------------------------------------
(* Two caller threads that mutate one collection, with no transaction open. *)
(* _update and _delete load the log, change their copy, rewrite the file    *)
(* and update the index; no lock is held, so the other thread may run      *)
(* between these steps.  A step here is never smaller than one statement.  *)

\* the update and delete calls a thread may make on collection c1
MutateCalls ==
    { [kind |-> "update", rid |-> record_id, data |-> update_data] :
          record_id \in {"a", "b"}, update_data \in Patches }
    \cup { [kind |-> "delete", rid |-> record_id, data |-> EmptyDict] :
               record_id \in {"a", "b"} }

\* the closure of a call, run without interruption
RunMutateCall(D, call) ==
    IF call.kind = "update" THEN update_closure(D, "c1", call.rid, call.data)
    ELSE delete_closure(D, "c1", call.rid)

\* the engine is set up by calls of one thread
Setup(A) == applied = NotApplied /\ A

\* two threads call update or delete on c1; each finds the file and runs its
\* closure at once
Spawn(call1, call2) ==
    /\ applied = NotApplied
    /\ "c1" \in paths
    /\ ~transaction_active
    /\ applied' = [fn |-> "mutate", before |-> DB,
                   th |-> [t \in Threads |->
                             [pc |-> "load", call |-> IF t = 1 THEN call1 ELSE call2,
                              records |-> <<>>, changed |-> None]]]
    /\ UNCHANGED engine_vars

\* records = load_all_records(collection_path), and the change made to the
\* copy: the first record with the id patched, or the records with the id
\* left out; a copy that did not change ends the closure
MutateLoad(t) ==
    /\ applied.fn = "mutate"
    /\ applied.th[t].pc = "load"
    /\ LET call == applied.th[t].call
           records == load_all_records(DB, "c1")
           i == FirstWithId(records, call.rid, 1)
           updated_record == DictSet(DictUpdate(records[i], call.data), "_id", call.rid)
           kept == SelectSeqBy(records, {r \in Range(records) : r["_id"] # call.rid})
       IN  applied' =
              IF i = 0 THEN [applied EXCEPT !.th[t].pc = "done"]
              ELSE IF call.kind = "update"
              THEN [applied EXCEPT !.th[t].pc = "rewrite",
                                   !.th[t].records = [records EXCEPT ![i] = updated_record],
                                   !.th[t].changed = updated_record]
              ELSE [applied EXCEPT !.th[t].pc = "rewrite",
                                   !.th[t].records = kept]
    /\ UNCHANGED engine_vars

\* with open(collection_path, 'wb') as f: the copy replaces the file
MutateRewrite(t) ==
    /\ applied.fn = "mutate"
    /\ applied.th[t].pc = "rewrite"
    /\ fdb' = [fdb EXCEPT !["c1"] = EncodeAll(applied.th[t].records)]
    /\ applied' = [applied EXCEPT !.th[t].pc = "index"]
    /\ UNCHANGED <<impl, paths, idx, buffer, index_cache, transaction_active,
                   transaction_buffer, uuid_count, last, snap, txn_phase>>

\* index_manager.update_index(collection, updated_record), or
\* index_manager.remove_from_index(collection, record_id)
MutateIndex(t) ==
    /\ applied.fn = "mutate"
    /\ applied.th[t].pc = "index"
    /\ LET call == applied.th[t].call
       IN  Store(IF call.kind = "update"
                 THEN update_index(DB, "c1", applied.th[t].changed)
                 ELSE remove_from_index(DB, "c1", call.rid))
    /\ applied' = [applied EXCEPT !.th[t].pc = "done"]
    /\ UNCHANGED <<impl, transaction_active, transaction_buffer, last, snap, txn_phase>>

NextMutate ==
    \/ \E c \in Collections : Setup(CreateCollection(c))
    \/ \E input_file \in ImportFiles : Setup(ImportCollection("c1", input_file))
    \/ \E call1, call2 \in MutateCalls : Spawn(call1, call2)
    \/ \E t \in Threads : MutateLoad(t)
    \/ \E t \in Threads : MutateRewrite(t)
    \/ \E t \in Threads : MutateIndex(t)

SpecMutate == Init /\ [][NextMutate]_vars

----------------------------------------------------------------------------
(* State functions the properties use *)

\* the frames a collection stores: its log followed by its write buffer
Content(c) == fdb[c] \o Get(buffer, c, <<>>)

\* the same when begin_transaction returned
SnapContent(c) == snap.fdb[c] \o Get(snap.buffer, c, <<>>)

\* the step is a call of op that returned normally
Returned(op) == last'.op = op /\ last'.exc = None

\* the pending list grew by exactly these closures, in this order
Appended(kinds, c) ==
    LET n == Len(transaction_buffer)
    IN  /\ Len(transaction_buffer') = n + Len(kinds)
        /\ SubSeq(transaction_buffer', 1, n) = transaction_buffer
        /\ \A i \in 1..Len(kinds) :
              /\ transaction_buffer'[n + i].kind = kinds[i]
              /\ transaction_buffer'[n + i].col = c

\* no buffer, index or log changes in the step
StoreFrame == UNCHANGED <<buffer, index_cache, idx, fdb, paths>>

\* the pending inserts into c, in order
PendingFor(c) ==
    SelectSeqBy(transaction_buffer,
        {op \in Range(transaction_buffer) : op.kind = "insert" /\ op.col = c})

----------------------------------------------------------------------------
(* Transactions: properties *)

\* C1: while a transaction is active, insert, insert_many, update and delete on
\* an existing collection change no buffer, no index and no log, and append
\* their closures to the end of the pending list in call order: one per
\* inserted record, one per update, one per delete.
C1_DeferredCallsOnlyAppend ==
    [][ transaction_active =>
        /\ \A c \in paths : \A data \in InsertData(c) :
              (last'.op = "insert" /\ last'.col = c /\ InsertCall(c, data)) =>
                 /\ StoreFrame
                 /\ Appended(<<"insert">>, c)
                 /\ transaction_buffer'[Len(transaction_buffer')].data = data
        /\ \A data_list \in InsertLists :
              (last'.op = "insert_many" /\ "c1" \in paths /\ InsertMany("c1", data_list)) =>
                 /\ StoreFrame
                 /\ Appended([i \in 1..Len(data_list) |-> "insert"], "c1")
                 /\ \A i \in 1..Len(data_list) :
                       transaction_buffer'[Len(transaction_buffer) + i].data = data_list[i]
        /\ \A record_id \in RecordIds, update_data \in Patches :
              (last'.op = "update" /\ "c1" \in paths /\ Update("c1", record_id, update_data)) =>
                 /\ StoreFrame
                 /\ Appended(<<"update">>, "c1")
                 /\ transaction_buffer'[Len(transaction_buffer')].rid = record_id
                 /\ transaction_buffer'[Len(transaction_buffer')].data = update_data
        /\ \A record_id \in RecordIds :
              (last'.op = "delete" /\ "c1" \in paths /\ Delete("c1", record_id)) =>
                 /\ StoreFrame
                 /\ Appended(<<"delete">>, "c1")
                 /\ transaction_buffer'[Len(transaction_buffer')].rid = record_id
      ]_vars

\* an insert_many of two records, made in an open transaction with an empty
\* pending list, has returned and left two pending closures
C1_Witness ==
    /\ transaction_active
    /\ last.op = "insert_many" /\ last.exc = None /\ last.col \in paths
    /\ last.pending = 0
    /\ Len(transaction_buffer) = 2

C3_RollbackAfterInserts ==
    [][ (txn_phase = "inserts" /\ last'.op = "rollback") =>
        /\ last'.exc = None
        /\ buffer' = snap.buffer
        /\ index_cache' = snap.cache
        /\ idx' = snap.idx
        /\ ~transaction_active'
        /\ transaction_buffer' = <<>>
      ]_vars

\* a rollback has discarded pending inserts of a transaction that was begun
\* with frames in a write buffer
C3_Witness ==
    /\ last.op = "rollback" /\ last.exc = None
    /\ last.phase = "inserts" /\ last.pending >= 1
    /\ \E c \in DOMAIN buffer : buffer[c] # <<>>

\* C4: when commit returns normally, every pending closure has run once, in
\* the order of the pending list, and all buffers were flushed: no transaction
\* is active, the pending list is empty, every write buffer is empty, and the
\* frames are in the logs.  For a transaction of inserts, each log is its old
\* log, then its old buffer, then one frame per pending insert, in order.
C4_CommitRunsAllThenFlushes ==
    [][ (last'.op = "commit" /\ last'.exc = None) =>
        LET ran == RunClosures(DB, transaction_buffer, impl)
        IN  /\ ~transaction_active'
            /\ transaction_buffer' = <<>>
            /\ \A c \in DOMAIN buffer' : buffer'[c] = <<>>
            /\ ran.exc = None
            /\ \A c \in Collections : fdb'[c] = ran.fdb[c] \o Get(ran.buffer, c, <<>>)
            /\ index_cache' = ran.cache /\ idx' = ran.idx
            /\ txn_phase = "inserts" =>
                  \A c \in Collections :
                     LET p == PendingFor(c)
                         n == Len(Content(c))
                     IN  /\ Len(fdb'[c]) = n + Len(p)
                         /\ SubSeq(fdb'[c], 1, n) = Content(c)
                         /\ \A k \in 1..Len(p) :
                               /\ fdb'[c][n + k].kv["f"] = Str(p[k].data["f"])
                               /\ "_id" \in DOMAIN p[k].data =>
                                     fdb'[c][n + k].blob = p[k].data["_id"]
      ]_vars

\* a commit of two pending closures has returned normally and a log holds two frames
C4_Witness ==
    /\ last.op = "commit" /\ last.exc = None
    /\ last.pending = 2
    /\ \E c \in Collections : Len(fdb[c]) = 2

\* C5, as stated: a commit that fails raises TransactionError and leaves no
\* transaction active and the pending list empty.
C5_FailedCommitEndsTransaction ==
    [][ (transaction_active /\ last'.op = "commit" /\ last'.exc # None) =>
        /\ last'.exc = "TransactionError"
        /\ ~transaction_active'
        /\ transaction_buffer' = <<>>
      ]_vars

\* C6, as stated: a commit of inserts that fails leaves the write buffers and
\* the index store as they were at begin_transaction.
C6_FailedCommitRestores ==
    [][ (txn_phase = "inserts" /\ last'.op = "commit" /\ last'.exc # None) =>
        /\ buffer' = snap.buffer
        /\ index_cache' = snap.cache
        /\ idx' = snap.idx
      ]_vars

\* C7: begin_transaction while a transaction is active, and commit or rollback
\* while none is, raise TransactionError and change neither the active flag,
\* nor the pending list, nor a buffer, an index or a log.
C7_IllegalTransitionsChangeNothing ==
    [][ (\/ transaction_active /\ last'.op = "begin_transaction"
         \/ ~transaction_active /\ last'.op \in {"commit", "rollback"}) =>
        /\ last'.exc = "TransactionError"
        /\ UNCHANGED <<transaction_active, transaction_buffer>>
        /\ StoreFrame
      ]_vars

\* begin_transaction was refused while closures were pending, and they still are
C7_Witness ==
    /\ last.op = "begin_transaction" /\ last.exc = "TransactionError"
    /\ last.pending >= 1
    /\ Len(transaction_buffer) = last.pending
    /\ transaction_active

\* C8, as stated, for an insert outside a transaction (applied when it
\* returns): find by the returned id finds the record.
C8_ReturnedIdIsStoredId ==
    [][ (~transaction_active /\ last'.op = "insert" /\ last'.exc = None) =>
        LET found == find(DB', last'.col, [_id |-> last'.ids[1]], NoLimit, 0, impl)
        IN  found.exc = None /\ found.n >= 1
      ]_vars

\* C9, as stated, for exists: with no transaction active, once insert(c, r)
\* with a caller's _id has returned, exists(c, r._id) is True.
C9_ReadsObserveInsert ==
    [][ ~transaction_active =>
        \A c \in Collections : \A data \in InsertData(c) :
            ("_id" \in DOMAIN data /\ InsertCall(c, data) /\ last'.exc = None) =>
                LET seen == exists(DB', c, data["_id"], impl)
                IN  seen.exc = None /\ seen.ok
      ]_vars

\* C10, as stated: after begin_transaction on an empty collection and three
\* inserts, count returns 3.
C10_CountSeesPendingInserts ==
    [][ (/\ transaction_active
         /\ txn_phase = "inserts"
         /\ SnapContent("c1") = <<>>
         /\ Len(PendingFor("c1")) = 3
         /\ last'.op = "count") =>
        count(DB, "c1", EmptyDict, impl).n = 3
      ]_vars

----------------------------------------------------------------------------
(* Calls outside a transaction: properties *)

\* the _id of each record of a list of frames, in order
IdsIn(frames) == [i \in 1..Len(frames) |-> decode_record(frames[i])["_id"]]

\* how many of the frames hold a record with this _id
CountId(frames, record_id) ==
    Cardinality({i \in 1..Len(frames) : IdsIn(frames)[i] = record_id})

\* the collection exists and stores one record with this _id, in its write buffer
OnlyBuffered(c, record_id) ==
    /\ c \in paths
    /\ CountId(fdb[c], record_id) = 0
    /\ CountId(Get(buffer, c, <<>>), record_id) = 1

\* C11, as stated: with no transaction active, update of a record that is only
\* in the write buffer patches it: find by its _id then returns exactly one
\* record, with the patch's values.
C11_UpdateReachesBufferedRecord ==
    [][ ~transaction_active =>
        \A record_id \in RecordIds, update_data \in Patches :
            (/\ last'.op = "update"
             /\ OnlyBuffered("c1", record_id)
             /\ Update("c1", record_id, update_data)) =>
                LET got == find(DB', "c1", [_id |-> record_id], NoLimit, 0, impl)
                IN  /\ got.exc = None
                    /\ got.n = 1
                    /\ \A k \in DOMAIN update_data : got.recs[1][k] = Str(update_data[k])
      ]_vars

\* C12, as stated: with no transaction active, delete of a record that is only
\* in the write buffer removes it: the collection stores no record with that
\* _id any more, exists returns False and find returns no record with that _id.
C12_DeleteReachesBufferedRecord ==
    [][ ~transaction_active =>
        \A record_id \in RecordIds :
            (/\ last'.op = "delete"
             /\ OnlyBuffered("c1", record_id)
             /\ Delete("c1", record_id)) =>
                LET seen == exists(DB', "c1", record_id, impl)
                    got == find(DB', "c1", EmptyDict, NoLimit, 0, impl)
                IN  /\ CountId(fdb'["c1"] \o Get(buffer', "c1", <<>>), record_id) = 0
                    /\ seen.exc = None /\ ~seen.ok
                    /\ got.exc = None
                    /\ \A i \in 1..got.n : got.recs[i]["_id"] # record_id
      ]_vars

\* the records a collection stores: those of its log, then those of its buffer
Stored(c) == DecodeAll(Content(c))

\* the posting list index[F][v] of a collection, [] when there is none
Posting(c, F, v) ==
    LET index_data == _load_index(DB, c)
    IN  IF F \in DOMAIN index_data THEN Range(Get(index_data[F], v, <<>>)) ELSE {}

\* C13, as stated: with no transaction ever used, for every indexed field F of
\* a collection and every record r it stores (log or write buffer), r._id is
\* in index[F][str(r.get(F, ""))].
C13_IndexComplete ==
    \A c \in paths : \A F \in DOMAIN _load_index(DB, c) :
        \A i \in 1..Len(Stored(c)) :
            Stored(c)[i]["_id"] \in Posting(c, F, Str(Get(Stored(c)[i], F, "")))

\* no posting list of c holds an extra id: an id in index[F][v] is the _id of a
\* stored record whose F, stringified, is v
IndexExact(c) ==
    LET index_data == _load_index(DB, c)
    IN  \A F \in DOMAIN index_data : \A v \in DOMAIN index_data[F] :
            \A id \in Range(index_data[F][v]) :
                \E i \in 1..Len(Stored(c)) :
                    /\ Stored(c)[i]["_id"] = id
                    /\ Str(Get(Stored(c)[i], F, "")) = v

\* C14, as stated: after every insert, update or delete that returns normally,
\* with no transaction ever used, no posting list holds an extra id.
C14_IndexExact ==
    (last.op \in {"insert", "update", "delete"} /\ last.exc = None) =>
        \A c \in paths : IndexExact(c)

\* record_id is in no posting list of index_data, and no posting list is empty
IndexRidOf(index_data, record_id) ==
    \A F \in DOMAIN index_data : \A v \in DOMAIN index_data[F] :
        /\ record_id \notin Range(index_data[F][v])
        /\ index_data[F][v] # <<>>

\* C15: after a delete(c, id) that removes a record, id is in no posting list
\* of c's index (as cached and as saved), and no indexed field keeps a value
\* whose posting list is empty.
C15_DeleteCleansIndex ==
    [][ \A record_id \in RecordIds :
            (/\ last'.op = "delete" /\ last'.found
             /\ Delete("c1", record_id)) =>
                /\ IndexRidOf(_load_index(DB', "c1"), record_id)
                /\ "c1" \in DOMAIN idx' => IndexRidOf(idx'["c1"], record_id)
      ]_vars

\* a delete has removed a record of an indexed collection whose index still
\* lists another record
C15_Witness ==
    /\ last.op = "delete" /\ last.found /\ last.exc = None
    /\ "c1" \in DOMAIN index_cache
    /\ \E F \in DOMAIN index_cache["c1"] : DOMAIN index_cache["c1"][F] # {}

\* C16, as stated: update on an existing collection returns True exactly when
\* a record with that _id was modified, and False when no record has it.
C16_UpdateReturnsWhetherModified ==
    (last.op = "update" /\ last.exc = None) =>
        /\ (last.ret = "True") = last.found
        /\ ~last.found => last.ret = "False"

\* C17, as stated: delete on an existing collection returns True exactly when
\* a record with that _id was removed, and False when no record has it.
C17_DeleteReturnsWhetherRemoved ==
    (last.op = "delete" /\ last.exc = None) =>
        /\ (last.ret = "True") = last.found
        /\ ~last.found => last.ret = "False"

\* C18: update never changes a record's _id, whatever the patch (one with an
\* _id key of its own included): in every collection the _ids of the stored
\* records, position by position in the log and in the buffer, are the same
\* before and after the call.
C18_UpdateKeepsIds ==
    [][ last'.op = "update" =>
        \A c \in Collections :
            /\ IdsIn(fdb'[c]) = IdsIn(fdb[c])
            /\ [i \in 1..Len(fdb'[c]) |-> fdb'[c][i].blob] = IdsIn(fdb[c])
            /\ IdsIn(Get(buffer', c, <<>>)) = IdsIn(Get(buffer, c, <<>>))
      ]_vars

\* an update with the patch {_id: 'b', f: 'z'} has modified record 'a', which
\* now holds f = 'z'
C18_Witness ==
    /\ last.op = "update" /\ last.found /\ last.exc = None
    /\ \E i \in 1..Len(fdb["c1"]) :
          /\ fdb["c1"][i].blob = "a"
          /\ fdb["c1"][i].kv["f"] = IdPatch["f"]

\* C19, as stated: update(c, id, {$inc: {f: 3}}) on a record of the log whose
\* f holds "5" leaves f holding "8", changes no other field, and adds no field
\* whose name starts with '$'.
C19_IncIsApplied ==
    [][ \A record_id \in RecordIds :
            LET records == load_all_records(DB, "c1")
                i == FirstWithId(records, record_id, 1)
            IN  (/\ last'.op = "update"
                 /\ ~transaction_active /\ "c1" \in paths
                 /\ i # 0
                 /\ Get(records[i], "f", "") = "5"
                 /\ Update("c1", record_id, IncPatch)) =>
                    LET after == load_all_records(DB', "c1")[i]
                    IN  /\ after["f"] = "8"
                        /\ DOMAIN after = DOMAIN records[i]
                        /\ "$inc" \notin DOMAIN after
      ]_vars

\* C20, as stated: with no transaction active, insert of an encodable record
\* into a collection that has no log file returns normally, and afterwards the
\* collection is listed and find returns the record.
C20_InsertCreatesCollection ==
    [][ ~transaction_active =>
        \A c \in Collections : \A data \in InsertData(c) :
            (/\ last'.op = "insert"
             /\ c \notin paths
             /\ ~EncodeRaises(data)
             /\ Insert(c, data)) =>
                LET got == find(DB', c, EmptyDict, NoLimit, 0, impl)
                IN  /\ last'.exc = None
                    /\ c \in list_collections(DB')
                    /\ \E i \in 1..got.n :
                          \A k \in DOMAIN data : got.recs[i][k] = Str(data[k])
      ]_vars

----------------------------------------------------------------------------
(* Collection lifecycle: properties *)

\* what the reads return on a state: no record, and no True from exists
ExposesNothing(D, c) ==
    /\ \A query \in Queries(c) \cup {EmptyDict} : find(D, c, query, NoLimit, 0, impl).n = 0
    /\ count(D, c, EmptyDict, impl).n = 0
    /\ \A record_id \in RecordIds : ~exists(D, c, record_id, impl).ok
    /\ aggregate(D, c, "f", impl).n = 0

\* C21, as stated: a drop_collection(c) that returns True leaves no log file
\* and no index of c; and while c has no log file, no find, count, exists,
\* aggregate or commit creates one or returns a record of c (list_collections
\* reads the directory and changes nothing): only create_collection and insert
\* bring c back.
C21_DropIsFinal ==
    [][ /\ (last'.op = "drop_collection" /\ last'.ret = "True") =>
              /\ "c1" \notin list_collections(DB')
              /\ "c1" \notin DOMAIN idx' /\ "c1" \notin DOMAIN index_cache'
        /\ ("c1" \notin paths /\
              last'.op \in {"find", "count", "exists", "aggregate", "commit"}) =>
              /\ "c1" \notin list_collections(DB')
              /\ ExposesNothing(DB', "c1")
      ]_vars

\* the fields of index_data, and whether all its posting lists are empty
NoPostings(index_data) ==
    \A F \in DOMAIN index_data : \A v \in DOMAIN index_data[F] : index_data[F][v] = <<>>

\* C22, as stated: with no transaction active, after a clear_collection(c) that
\* returns True count(c) is 0 and find(c) is empty, whether or not records of c
\* were in the write buffer; c's index keeps its fields and all its posting
\* lists are empty.
C22_ClearEmptiesCollection ==
    [][ (~transaction_active /\ last'.op = "clear_collection" /\ last'.ret = "True") =>
        LET n == count(DB', "c1", EmptyDict, impl)
            got == find(DB', "c1", EmptyDict, NoLimit, 0, impl)
        IN  /\ n.exc = None /\ n.n = 0
            /\ got.exc = None /\ got.recs = <<>>
            /\ DOMAIN _load_index(DB', "c1") = DOMAIN _load_index(DB, "c1")
            /\ NoPostings(_load_index(DB', "c1"))
            /\ "c1" \in DOMAIN idx' => NoPostings(idx'["c1"])
      ]_vars

\* C23, as stated: with no transaction used, the file an export_collection(c, f)
\* that returns True writes holds the frames c stored when the call was made,
\* those of its log and then those still in its write buffer, in that order.
C23_ExportFlushesFirst ==
    [][ (last'.op = "export_collection" /\ last'.ret = "True") =>
        last'.out = Content("c1")
      ]_vars

\* C24, as stated: after an import_collection(c, file) that returns True for a
\* collection with indexed fields, every record of the imported log is in the
\* posting list of its value for every indexed field, and find(c, {F: v}) on an
\* indexed field F returns every imported record whose F is v.
C24_ImportReindexes ==
    [][ (/\ last'.op = "import_collection" /\ last'.ret = "True"
         /\ DOMAIN _load_index(DB, "c1") # {}) =>
        LET records == load_all_records(DB', "c1")
            index_data == _load_index(DB', "c1")
        IN  /\ \A i \in 1..Len(records) : \A F \in DOMAIN index_data :
                  records[i]["_id"] \in
                      Range(Get(index_data[F], Str(Get(records[i], F, "")), <<>>))
            /\ \A query \in Queries("c1") :
                  LET got == find(DB', "c1", query, NoLimit, 0, impl)
                  IN  /\ got.exc = None
                      /\ \A i \in 1..Len(records) :
                            (\A F \in DOMAIN query : Get(records[i], F, "") = Str(query[F]))
                               => records[i] \in Range(got.recs)
      ]_vars

\* find(c, query) on D returns this record
Finds(D, c, query, record) ==
    LET got == find(D, c, query, NoLimit, 0, impl)
    IN  got.exc = None /\ record \in Range(got.recs)

\* C25, as stated: with no transaction used, a flush of c leaves every frame c
\* stored, its buffered ones included, in c's log; and a fresh engine opened on
\* the directory returns each record r of a log from find(c, {_id: r._id}),
\* and from a find on r's value of an indexed field, which reads the index
\* from its file.
C25_FlushedInsertIsDurable ==
    [][ /\ \A c \in Collections :
              (last'.op = "flush" /\ last'.col = c /\ c \in paths) =>
                  /\ last'.exc = None
                  /\ fdb'[c] = Content(c)
        /\ last'.op = "open" =>
              \A c \in paths' : \A r \in Range(load_all_records(DB', c)) :
                  /\ Finds(DB', c, [_id |-> r["_id"]], r)
                  /\ \A F \in DOMAIN _load_index(DB', c) :
                        F \in DOMAIN r => Finds(DB', c, [x \in {F} |-> r[F]], r)
      ]_vars

----------------------------------------------------------------------------
(* The codec and the log scan: properties *)

\* C26: for every record r with an _id of at most 36 bytes, the frame that
\* encode_record(r) returns starts with four bytes whose value is the number
\* of bytes after them, and decode_record on those bytes returns a record
\* equal to r.
C26_CodecRoundTrip ==
    (/\ applied.fn = "decode_record"
     /\ Len(ItemsGet(applied.data, IdKey, <<>>)) <= IdWidth)
    => /\ FromU32(Slice(applied.frame, 0, 4)) = Len(applied.frame) - 4
       /\ applied.decoded.ok
       /\ applied.decoded.record = AsDict(applied.after)
       /\ ItemsGet(applied.data, IdKey, <<>>) = ItemsGet(applied.after, IdKey, <<>>)
          \/ \A i \in 1..Len(applied.data) : applied.data[i][1] # IdKey

\* a record with an _id of exactly 36 bytes and one more field went through
\* encode_record and decode_record
C26_Witness ==
    /\ applied.fn = "decode_record"
    /\ Len(ItemsGet(applied.data, IdKey, <<>>)) = IdWidth
    /\ Len(applied.data) = 2
    /\ applied.decoded.ok

\* the records of the frames of a log that the damage left complete: all but
\* the last after a cut, all of them otherwise
IntactRecords(a) ==
    LET n == IF a.damage = "cut" THEN Len(a.frames) - 1 ELSE Len(a.frames)
    IN  [i \in 1..n |-> AsDict(a.frames[i])]

\* the records of a sequence whose _id is asked for, in order
RECURSIVE WithIds(_, _)
WithIds(records, record_ids) ==
    IF records = <<>> THEN <<>>
    ELSE (IF Head(records)[IdKey] \in record_ids THEN <<Head(records)>> ELSE <<>>)
         \o WithIds(Tail(records), record_ids)

\* C27: when the last N bytes of a log of complete frames are cut (N smaller
\* than the last frame) or bytes are appended to it, a scan of the file
\* returns, first and in order, the records of every frame that is still
\* complete (those whose id is asked for, when the scan is by ids); after a
\* cut it returns nothing else.
C27_TruncationTolerance ==
    applied.fn \in {"load_all_records", "load_records_by_ids"}
    => LET intact == IF applied.fn = "load_all_records" THEN IntactRecords(applied)
                     ELSE WithIds(IntactRecords(applied), applied.asked)
       IN  /\ Len(applied.records) >= Len(intact)
           /\ SubSeq(applied.records, 1, Len(intact)) = intact
           /\ applied.damage = "cut" => applied.records = intact

\* a log of two frames lost part of its last frame and was scanned: the
\* first record came back
C27_Witness ==
    /\ applied.fn = "load_all_records"
    /\ applied.damage = "cut"
    /\ Len(applied.frames) = 2
    /\ Len(applied.records) = 1

----------------------------------------------------------------------------
(* Queries: properties *)

\* the records of c, in the log and in the buffer, whose value of key
\* (missing = the empty string) is an element of value
MembersIn(c, key, value) ==
    LET records == DecodeAll(Content(c))
    IN  SelectSeqBy(records, {r \in Range(records) : Get(r, key, "") \in value})

\* C28: find(c, {F: {$in: L}}) on an existing collection returns the records
\* whose value of F is string-equal to an element of L, and only those, for
\* numeric and non-numeric values and for an indexed and an unindexed F.
C28_InMatchesMembers ==
    [][ \A c \in Collections, value \in InLists :
          (FindIn(c, "f", value) /\ c \in paths)
          => LET R == find_in(DB, c, "f", value, impl)
             IN  /\ R.exc = None
                 /\ R.recs = MembersIn(c, "f", value)
      ]_vars

\* s back to front
RECURSIVE Reversed(_)
Reversed(s) == IF s = <<>> THEN <<>> ELSE Reversed(Tail(s)) \o <<Head(s)>>

\* the keys of all the records can be compared with each other
Comparable(records, sort) ==
    \A i, j \in 1..Len(records) :
        ~CompareRaises(key_func(records[i], sort), key_func(records[j], sort))

\* C29: find with a sort mapping raises nothing and returns as many records
\* as the collection holds, ordered ascending by the key of the sort fields
\* (missing field = empty string), records of equal key in their original
\* order, and this order reversed when a direction is -1.
C29_SortOrder ==
    [][ \A c \in Collections, sort \in Sorts :
          (FindSorted(c, sort) /\ c \in paths)
          => LET R == find_sorted(DB, c, sort, impl)
                 records == DecodeAll(Content(c))
                 ascending == SortedBy(records, sort, FALSE)
             IN  /\ R.exc = None
                 /\ Len(R.recs) = Len(records)
                 /\ Comparable(records, sort)
                    => R.recs = IF AnyDescending(sort) THEN Reversed(ascending)
                                 ELSE ascending
      ]_vars

\* the records of c, in the log and in the buffer, that match the query
Matching(c, query) ==
    LET records == DecodeAll(Content(c))
    IN  SelectSeqBy(records,
            {r \in Range(records) : \A key \in DOMAIN query : Get(r, key, "") = query[key]})

\* the elements at positions skip .. skip+limit-1 (counted from 0) of a list,
\* all the elements from skip on without a limit
Window(records, limit, skip) ==
    LET rest == SubSeq(records, skip + 1, Len(records))
    IN  IF limit = NoLimit THEN rest ELSE SubSeq(rest, 1, Min(limit, Len(rest)))

\* C30: find(c, query, limit=l, skip=s) returns the elements at positions
\* s .. s+l-1 of the full filtered result over all the records of c, buffered
\* records included, and never more than l records.
C30_SkipThenLimit ==
    [][ \A c \in Collections : \A query \in Queries(c), limit \in Limits, skip \in Skips :
          (FindWindow(c, query, limit, skip) /\ c \in paths)
          => LET R == find(DB, c, query, limit, skip, impl)
             IN  /\ R.exc = None
                 /\ R.recs = Window(Matching(c, query), limit, skip)
                 /\ limit # NoLimit => Len(R.recs) <= limit
      ]_vars

----------------------------------------------------------------------------
(* Aggregation: properties *)

\* the records of a list whose group key (None when the field is missing) is key
GroupOf(records, key) ==
    SelectSeqBy(records, {r \in Range(records) : Get(r, "g", None) = key})

\* the sum of the numeric values of field F over a list of records
RECURSIVE NumericSum(_, _)
NumericSum(records, F) ==
    IF records = <<>> THEN 0
    ELSE (IF F \in DOMAIN Head(records) /\ IsNumeric(Head(records)[F])
          THEN FloatOf(Head(records)[F]) ELSE 0)
         + NumericSum(Tail(records), F)

\* the sum of the output field n over a list of groups
RECURSIVE TotalCount(_)
TotalCount(groups) ==
    IF groups = <<>> THEN 0 ELSE Head(groups).acc["n"] + TotalCount(Tail(groups))

\* C31: the $group stage on field g returns exactly one output per distinct
\* value of record.get(g), a missing g forming the group of key None; in each
\* output the $count field is the number of records of the group and the $sum
\* field is the sum of the group's numeric f values, the other records adding
\* 0; the counts of all the groups add up to the number of records.
C31_GroupSumCount ==
    applied.fn = "aggregate"
    => LET out == applied.out
           records == applied.records
       IN  /\ {out[i]["_id"] : i \in 1..Len(out)}
                 = {Get(records[j], "g", None) : j \in 1..Len(records)}
           /\ \A i, j \in 1..Len(out) : out[i]["_id"] = out[j]["_id"] => i = j
           /\ \A i \in 1..Len(out) :
                 /\ out[i].acc["n"] = Len(GroupOf(records, out[i]["_id"]))
                 /\ out[i].acc["total"] = NumericSum(GroupOf(records, out[i]["_id"]), "f")
           /\ TotalCount(out) = Len(records)

\* two records of one group, one with a number in f and one without, were
\* aggregated
C31_Witness ==
    /\ applied.fn = "aggregate"
    /\ Len(applied.records) = 2
    /\ Len(applied.out) = 1
    /\ applied.out[1].acc["n"] = 2
    /\ applied.out[1].acc["total"] = 5

\* C32: with an accumulator avg: {$avg: f}, every output group carries the
\* field avg, and its value is the mean of the numeric f values of the
\* group's records (times the number of such records, it is their sum).
C32_GroupAvg ==
    applied.fn = "aggregate"
    => \A i \in 1..Len(applied.out) :
          LET group == GroupOf(applied.records, applied.out[i]["_id"])
              numeric == SelectSeqBy(group,
                             {r \in Range(group) : "f" \in DOMAIN r /\ IsNumeric(r["f"])})
          IN  /\ "avg" \in DOMAIN applied.out[i].acc
              /\ applied.out[i].acc["avg"] * Len(numeric) = NumericSum(numeric, "f")

-----------------------------------------------------------------------------
(* Concurrency: properties *)

\* the frames of the collection: its log, then its write buffer
ThreadStored ==
    applied.log \o (IF applied.bound = 0 THEN <<>> ELSE applied.heap[applied.bound])

Occurrences(frames, frame) == Cardinality({i \in 1..Len(frames) : frames[i] = frame})

Quiescent == \A t \in Threads : applied.th[t].pc = "idle"

\* C33: once two threads that inserted into, and flushed, one collection have
\* returned, every frame an insert appended is exactly once in the
\* collection's log plus write buffer
C33_ExactlyOnce ==
    (applied.fn = "threads" /\ Quiescent) =>
        \A frame \in applied.appended : Occurrences(ThreadStored, frame) = 1

\* what the log of c1 and its index are after the two closures ran one after
\* the other, `first` before the other one
Serial(first) ==
    LET other == CHOOSE t \in Threads : t # first
        D1 == RunMutateCall(applied.before, applied.th[first].call)
    IN  RunMutateCall(D1, applied.th[other].call)

\* log and index of c1 are those of D
SameLogAndIndex(D) ==
    /\ fdb["c1"] = D.fdb["c1"]
    /\ idx = D.idx
    /\ Get(index_cache, "c1", EmptyDict) = Get(D.cache, "c1", EmptyDict)

MutateDone == applied.fn = "mutate" /\ \A t \in Threads : applied.th[t].pc = "done"

\* C34: when two update or delete calls made on one collection from two
\* threads have returned, the log and the index of the collection are what
\* running the two calls one after the other, in one of the two orders, leaves
C34_Serialised ==
    MutateDone => \E first \in Threads : SameLogAndIndex(Serial(first))

-----------------------------------------------------------------------------
(* The index path: properties *)

\* the condition is a map of operators, not a value to compare with
IsOperatorMap(condition) == condition \in {StrOfIn(value) : value \in InLists}

\* c has an index, and a key of the query is one of its fields with a plain
\* value as its condition
EqualityOnIndexedField(c, query) ==
    /\ c \in DOMAIN index_cache \cup DOMAIN idx
    /\ \E key \in DOMAIN query :
          /\ key \in DOMAIN _load_index(DB, c)
          /\ ~IsOperatorMap(query[key])

\* C35: when find is called, with a plain query or with {f: {'$in': L}},
\* can_use_index(c, query) is true if and only if c has an index and a key of
\* the query is an indexed field whose condition is a plain value; a query
\* whose condition on the indexed field is an operator map takes the scan
C35_IndexPathIffEquality ==
    [][ \A c \in Collections :
          /\ \A value \in InLists :
                FindIn(c, "f", value)
                => (can_use_index(DB, c, [k \in {"f"} |-> StrOfIn(value)])
                      <=> EqualityOnIndexedField(c, [k \in {"f"} |-> StrOfIn(value)]))
          /\ \A query \in Queries(c) :
                (\E limit \in Limits, skip \in Skips : FindWindow(c, query, limit, skip))
                => (can_use_index(DB, c, query) <=> EqualityOnIndexedField(c, query))
      ]_vars

\* find on its scan path: the same call with no index to use
ScanFind(c, query) == find(drop_index(DB, c), c, query, NoLimit, 0, impl)

\* C36: find(c, query) on an existing collection returns what it returns by
\* its scan path, where every record of the log is loaded and then filtered:
\* the index-assisted path and the full scan agree
C36_IndexAgreesWithScan ==
    [][ \A c \in Collections : \A query \in Queries(c) :
          (Find(c, query) /\ c \in paths)
          => LET R == find(DB, c, query, NoLimit, 0, impl)
             IN  /\ R.exc = ScanFind(c, query).exc
                 /\ R.recs = ScanFind(c, query).recs
      ]_vars

-----------------------------------------------------------------------------
(* Flush and the write buffer: properties *)

\* C37: a flush of collection c appends the frames c's buffer holds, in their
\* order, to the end of c's log, leaves the frames the log had in place,
\* empties c's buffer and changes no other collection's log or buffer; with
\* no frame buffered for c it changes nothing
C37_FlushFrame ==
    [][ \A c \in Collections :
          Flush(c)
          => /\ fdb'[c] = fdb[c] \o Get(buffer, c, <<>>)
             /\ Get(buffer', c, <<>>) = <<>>
             /\ \A other \in Collections \ {c} :
                   /\ fdb'[other] = fdb[other]
                   /\ Get(buffer', other, <<>>) = Get(buffer, other, <<>>)
             /\ Get(buffer, c, <<>>) = <<>> => (fdb' = fdb /\ buffer' = buffer)
      ]_vars

\* C39: between public calls the write buffer of every collection holds fewer
\* than buffer_size frames: an insert that brings it to buffer_size frames
\* flushes it before it returns, also when commit runs it
C39_BufferBelowSize ==
    \A c \in DOMAIN buffer : Len(buffer[c]) < buffer_size

-----------------------------------------------------------------------------
(* Transactional and immediate execution: properties *)

\* the calls behind the closures ops, made one after the other with no
\* transaction open: add_to_transaction runs each closure at once, and an
\* exception ends the call that raised it, not the calls after it
RECURSIVE RunImmediately(_, _, _)
RunImmediately(D, ops, engine) ==
    IF ops = <<>> THEN D
    ELSE RunImmediately([RunClosure(D, Head(ops), engine) EXCEPT !.exc = None],
                        Tail(ops), engine)

\* the same calls with no transaction, then a flush of every buffer
ImmediateThenFlush ==
    LET ran == RunImmediately(DB, transaction_buffer, impl)
    IN  IF impl = "modular" THEN flush_buffer_all(ran) ELSE _flush_buffer_all(ran)

\* since begin_transaction only insert, update and delete were called, on
\* collections that exist: the files and buffers are those begin_transaction met
OnlyDeferredCalls ==
    /\ transaction_active
    /\ transaction_buffer # <<>>
    /\ paths = snap.paths /\ fdb = snap.fdb /\ idx = snap.idx /\ buffer = snap.buffer
    /\ \A i \in 1..Len(transaction_buffer) : transaction_buffer[i].col \in paths

\* every pending closure runs to its end when commit runs the list
CleanClosures == RunClosures(DB, transaction_buffer, impl).exc = None

-----------------------------------------------------------------------------
(* update and delete, the records they leave alone: properties *)

\* the records of the log of c1 before and after the step
LogBefore == DecodeAll(fdb["c1"])
LogAfter == DecodeAll(fdb'["c1"])

\* C40: with no transaction open, update(c1, id, patch) changes only the
\* first record of the log whose _id is id and delete(c1, id) removes only the
\* records whose _id is id; every other record keeps its fields and its place
\* among the others, and when no record has the id the log and the index are
\* left as they were
C40_OthersUntouched ==
    [][ /\ \A record_id \in RecordIds, update_data \in DirectPatches :
              (last'.op = "update" /\ "c1" \in paths /\ Update("c1", record_id, update_data))
              => LET i == FirstWithId(LogBefore, record_id, 1)
                 IN  IF i = 0
                     THEN fdb' = fdb /\ idx' = idx /\ index_cache' = index_cache
                     ELSE /\ Len(LogAfter) = Len(LogBefore)
                          /\ \A j \in 1..Len(LogBefore) : j # i => LogAfter[j] = LogBefore[j]
                          /\ \A other \in Collections \ {"c1"} : fdb'[other] = fdb[other]
        /\ \A record_id \in RecordIds :
              (last'.op = "delete" /\ "c1" \in paths /\ Delete("c1", record_id))
              => /\ LogAfter = SelectSeqBy(LogBefore,
                                  {r \in Range(LogBefore) : r["_id"] # record_id})
                 /\ \A other \in Collections \ {"c1"} : fdb'[other] = fdb[other]
                 /\ FirstWithId(LogBefore, record_id, 1) = 0
                       => (fdb' = fdb /\ idx' = idx /\ index_cache' = index_cache)
      ]_vars

\* an update or a delete has met its record in a log that holds another
\* record as well
C40_Witness ==
    /\ last.op \in {"update", "delete"} /\ last.exc = None /\ last.found
    /\ \E i \in 1..Len(fdb["c1"]) : decode_record(fdb["c1"][i])["_id"] # "a"

====
